---- MODULE Spec2Model ----
(***************************************************************************)
(* Verification model of payload_dumper_web: the extraction worker         *)
(* (downloadRange, readZipPayload, readPayloadHeader, processUrl,          *)
(* processFile, processPayloadBuffer, self.onmessage), the local-file      *)
(* PayloadParser and the PayloadHandler front end.                         *)
(*                                                                         *)
(* Resources are byte sequences; every parser below reads them through     *)
(* the same little-endian accessors the code uses (DataView.getUint16,     *)
(* getUint32, getBigUint64), including the RangeError of a read past the   *)
(* end of the buffer.                                                      *)
(***************************************************************************)
EXTENDS Integers, Sequences, FiniteSets, TLC

----------------------------------------------------------------------------
(* Bounds of the model.                                                    *)

\* Number of 'process' messages a worker instance receives.
MaxSessions == 2
\* Longest requested partition list.
MaxParts == 2
\* maxChunkSize of downloadRange, scaled down from 5 MiB.
MaxChunkSize == 2
\* Longest requested partition list when sessions overlap.
BusyParts == 1
\* Highest byte position a stand-alone downloadRange call is tried on.
MaxPos == 6

----------------------------------------------------------------------------
(* Byte-level helpers.                                                     *)

Min(a, b) == IF a < b THEN a ELSE b

Max(a, b) == IF a > b THEN a ELSE b

\* Little-endian encoders used to build the byte fixtures.
LE16(n) == <<n % 256, (n \div 256) % 256>>

LE32(n) == <<n % 256, (n \div 256) % 256, (n \div 65536) % 256, (n \div 16777216) % 256>>

LE64(n) == LE32(n) \o <<0, 0, 0, 0>>

Zeros(n) == [i \in 1..n |-> 0]

\* ArrayBuffer.slice(a, b): clamps to the buffer, never throws.
Slice(buf, a, b) ==
  LET lo == Min(Max(a, 0), Len(buf))
      hi == Min(Max(b, 0), Len(buf))
  IN  IF hi <= lo THEN <<>> ELSE SubSeq(buf, lo + 1, hi)

\* A DataView read of n bytes at byte offset off is legal.
CanRead(buf, off, n) == off >= 0 /\ off + n <= Len(buf)

\* DataView.getUint16(off, true).
U16(buf, off) == buf[off + 1] + 256 * buf[off + 2]

\* The four bytes DataView.getUint32(off, true) decodes, lowest first.
B4(buf, off) == <<buf[off + 1], buf[off + 2], buf[off + 3], buf[off + 4]>>

\* Stand-in for any decoded value of 2^30 or more: larger than every offset
\* and length of the fixtures, and small enough to add a window size to.
Huge == 1024 * 1024 * 1024

\* DataView.getUint32(off, true).  Signatures and sentinels are compared
\* through B4; a value of 2^30 or more is decoded as Huge.
U32(buf, off) ==
  IF buf[off + 4] >= 64 THEN Huge
  ELSE buf[off + 1] + 256 * buf[off + 2] + 65536 * buf[off + 3] + 16777216 * buf[off + 4]

\* Number(DataView.getBigUint64(off, true)); Huge when the high word is set.
U64(buf, off) ==
  IF B4(buf, off + 4) # <<0, 0, 0, 0>> THEN Huge ELSE U32(buf, off)

----------------------------------------------------------------------------
(* Signatures and names, as the bytes a little-endian read decodes.        *)

\* 0x04034b50, ZIP local file header.
ZIP_LOCAL_SIG == <<80, 75, 3, 4>>

\* 0x02014b50, central directory file header.
ZIP_CD_SIG == <<80, 75, 1, 2>>

\* 0x06054b50, end of central directory.
ZIP_EOCD_SIG == <<80, 75, 5, 6>>

\* 0x06064b50, ZIP64 end of central directory.
ZIP64_EOCD_SIG == <<80, 75, 6, 6>>

\* 0x07064b50, ZIP64 end of central directory locator.
ZIP64_LOC_SIG == <<80, 75, 6, 7>>

\* 0xed26ff3a, the payload magic of the worker.
WORKER_MAGIC == <<58, 255, 38, 237>>

\* 0xFFFFFFFF, the 32-bit ZIP64 sentinel.
SENTINEL32 == <<255, 255, 255, 255>>

\* 'CrAU', PAYLOAD_MAGIC of PayloadParser (TextDecoder of 4 bytes).
PAYLOAD_MAGIC == <<67, 114, 65, 85>>

\* readPayloadHeader: PAYLOAD_VERSION.
PAYLOAD_VERSION == 2

\* downloadRange: maxRetries.
maxRetries == 3

\* Window sizes of the range requests.
TailWindow == 65536

HeaderWindow == 8192

Zip64EocdWindow == 256

\* OperationType.
REPLACE == 0

ZERO == 1

COPY == 2

BSDIFF == 3

possibleNames ==
  << <<112, 97, 121, 108, 111, 97, 100, 46, 98, 105, 110>>,
     <<80, 65, 89, 76, 79, 65, 68, 46, 66, 73, 78>>,
     <<112, 97, 121, 108, 111, 97, 100, 46, 105, 109, 103>>,
     <<80, 65, 89, 76, 79, 65, 68, 46, 73, 77, 71>>,
     <<105, 109, 97, 103, 101, 115, 47, 112, 97, 121, 108, 111, 97, 100, 46, 98, 105, 110>>,
     <<105, 109, 97, 103, 101, 115, 47, 80, 65, 89, 76, 79, 65, 68, 46, 66, 73, 78>>,
     <<102, 105, 114, 109, 119, 97, 114, 101, 45, 117, 112, 100, 97, 116, 101, 47,
       112, 97, 121, 108, 111, 97, 100, 46, 98, 105, 110>>,
     <<77, 69, 84, 65, 45, 73, 78, 70, 47, 112, 97, 121, 108, 111, 97, 100, 46, 98, 105, 110>>,
     <<79, 84, 65, 47, 112, 97, 121, 108, 111, 97, 100, 46, 98, 105, 110>> >>

\* Partition names, as decoded text (sequences of character codes).
N_boot == <<98, 111, 111, 116>>

N_system == <<115, 121, 115, 116, 101, 109>>

N_doesnotexist == <<100, 111, 101, 115, 110, 111, 116, 101, 120, 105, 115, 116>>

\* 'payload.bin'
FN_payload == <<112, 97, 121, 108, 111, 97, 100, 46, 98, 105, 110>>

----------------------------------------------------------------------------
(* Byte fixtures: the resources a session may be pointed at.               *)

\* One manifest entry in the layout readPayloadHeader decodes.
UrlEntry(name, size, off) ==
  LE32(Len(name)) \o name \o LE64(size) \o LE64(off) \o Zeros(8)

\* A raw payload in the layout readPayloadHeader decodes.
UrlPayload(version, count, entries, data) ==
  WORKER_MAGIC \o LE32(version) \o LE64(20 + Len(entries)) \o LE32(count)
    \o entries \o data

\* One operation / one partition in the layout PayloadParser.parseManifest decodes.
FileOp(type, off, len) == LE32(type) \o LE64(off) \o LE64(len)

FilePart(name, numOps, ops) == LE32(Len(name)) \o name \o LE32(numOps) \o ops

\* A payload in the layout PayloadParser.parse decodes.
FilePayload(version, manifest, body) ==
  PAYLOAD_MAGIC \o LE64(version) \o LE64(Len(manifest)) \o LE32(0) \o manifest \o body

ZipLocalHeader(name, extra, method, size) ==
  ZIP_LOCAL_SIG \o LE16(20) \o LE16(0) \o LE16(method) \o LE16(0) \o LE16(0)
    \o LE32(0) \o LE32(size) \o LE32(size) \o LE16(Len(name)) \o LE16(Len(extra))
    \o name \o extra

ZipCdRecord(name, extra, method, size, lhoBytes) ==
  ZIP_CD_SIG \o LE16(20) \o LE16(20) \o LE16(0) \o LE16(method) \o LE16(0) \o LE16(0)
    \o LE32(0) \o LE32(size) \o LE32(size) \o LE16(Len(name)) \o LE16(Len(extra))
    \o LE16(0) \o LE16(0) \o LE16(0) \o LE32(0) \o lhoBytes \o name \o extra

ZipEocd(entries, cdSizeBytes, cdOffsetBytes) ==
  ZIP_EOCD_SIG \o LE16(0) \o LE16(0) \o LE16(entries) \o LE16(entries)
    \o cdSizeBytes \o cdOffsetBytes \o LE16(0)

Zip64Eocd(entries, cdSize, cdOffset) ==
  ZIP64_EOCD_SIG \o LE64(44) \o LE16(45) \o LE16(45) \o LE32(0) \o LE32(0)
    \o LE64(entries) \o LE64(entries) \o LE64(cdSize) \o LE64(cdOffset)

Zip64Locator(zip64EocdOffset) ==
  ZIP64_LOC_SIG \o LE32(0) \o LE64(zip64EocdOffset) \o LE32(1)

\* An extra-field block: tag, data size, data.
ExtraField(headerId, data) == LE16(headerId) \o LE16(Len(data)) \o data

\* Raw payload: boot (3 bytes) and system (2 bytes) stored after the header.
RawData == <<11, 12, 13, 21, 22>>

RawEntries(base) == UrlEntry(N_boot, 3, base) \o UrlEntry(N_system, 2, base + 3)

RawResource == UrlPayload(2, 2, RawEntries(20 + Len(RawEntries(0))), RawData)

\* ZIP archive holding RawResource as the stored entry payload.bin.
ZipBody == ZipLocalHeader(FN_payload, <<>>, 0, Len(RawResource)) \o RawResource

ZipCd == ZipCdRecord(FN_payload, <<>>, 0, Len(RawResource), LE32(0))

ZipResource == ZipBody \o ZipCd \o ZipEocd(1, LE32(Len(ZipCd)), LE32(Len(ZipBody)))

\* The same archive in ZIP64 form: the local header offset of the entry and
\* the central directory offset are the sentinel; the true values sit in the
\* ZIP64 extra field (after an unrelated extra field) and the ZIP64 EOCD.
Zip64Cd ==
  ZipCdRecord(FN_payload, ExtraField(7, <<0, 0>>) \o ExtraField(1, LE64(0)), 0,
              Len(RawResource), SENTINEL32)

Zip64Resource ==
  ZipBody \o Zip64Cd \o Zip64Eocd(1, Len(Zip64Cd), Len(ZipBody))
    \o Zip64Locator(Len(ZipBody) + Len(Zip64Cd))
    \o ZipEocd(1, LE32(Len(Zip64Cd)), SENTINEL32)

\* An archive of several entries: payload.bin deflated, payload.img stored
\* but not a payload, PAYLOAD.BIN whose local header offset points at bytes
\* that are no local header, 'readme', and OTA/payload.bin stored and holding
\* RawResource behind a local header with an extra field its central
\* directory record does not repeat.
MultiDeflated == ZipLocalHeader(FN_payload, <<>>, 8, 2) \o <<1, 2>>

MultiImg == ZipLocalHeader(possibleNames[3], <<>>, 0, 4) \o <<9, 9, 9, 9>>

MultiJunk == <<0, 0, 0, 0>>

MultiReadme == ZipLocalHeader(<<114, 101, 97, 100, 109, 101>>, <<>>, 0, 1) \o <<33>>

MultiOtaHeader == ZipLocalHeader(possibleNames[9], ExtraField(7, <<0, 0>>), 0, Len(RawResource))

MultiOtaAt == Len(MultiDeflated) + Len(MultiImg) + Len(MultiJunk) + Len(MultiReadme)

MultiBody ==
  MultiDeflated \o MultiImg \o MultiJunk \o MultiReadme \o MultiOtaHeader \o RawResource

MultiRejected ==
  ZipCdRecord(FN_payload, <<>>, 8, 2, LE32(0))
    \o ZipCdRecord(possibleNames[3], <<>>, 0, 4, LE32(Len(MultiDeflated)))
    \o ZipCdRecord(possibleNames[2], <<>>, 0, 4, LE32(Len(MultiDeflated) + Len(MultiImg)))

MultiCd ==
  MultiRejected
    \o ZipCdRecord(<<114, 101, 97, 100, 109, 101>>, <<>>, 0, 1,
                   LE32(Len(MultiDeflated) + Len(MultiImg) + Len(MultiJunk)))
    \o ZipCdRecord(possibleNames[9], <<>>, 0, Len(RawResource), LE32(MultiOtaAt))

MultiArchive == MultiBody \o MultiCd \o ZipEocd(5, LE32(Len(MultiCd)), LE32(Len(MultiBody)))

\* The bytes of MultiArchive, written out.
MultiResource ==
  << 80, 75, 3, 4, 20, 0, 0, 0, 8, 0, 0, 0, 0, 0, 0, 0, 0, 0, 2, 0,
     0, 0, 2, 0, 0, 0, 11, 0, 0, 0, 112, 97, 121, 108, 111, 97, 100, 46, 98, 105,
     110, 1, 2, 80, 75, 3, 4, 20, 0, 0, 0, 0, 0, 0, 0, 0, 0, 0, 0, 0,
     0, 4, 0, 0, 0, 4, 0, 0, 0, 11, 0, 0, 0, 112, 97, 121, 108, 111, 97, 100,
     46, 105, 109, 103, 9, 9, 9, 9, 0, 0, 0, 0, 80, 75, 3, 4, 20, 0, 0, 0,
     0, 0, 0, 0, 0, 0, 0, 0, 0, 0, 1, 0, 0, 0, 1, 0, 0, 0, 6, 0,
     0, 0, 114, 101, 97, 100, 109, 101, 33, 80, 75, 3, 4, 20, 0, 0, 0, 0, 0, 0,
     0, 0, 0, 0, 0, 0, 0, 91, 0, 0, 0, 91, 0, 0, 0, 15, 0, 6, 0, 79,
     84, 65, 47, 112, 97, 121, 108, 111, 97, 100, 46, 98, 105, 110, 7, 0, 2, 0, 0, 0,
     58, 255, 38, 237, 2, 0, 0, 0, 86, 0, 0, 0, 0, 0, 0, 0, 2, 0, 0, 0,
     4, 0, 0, 0, 98, 111, 111, 116, 3, 0, 0, 0, 0, 0, 0, 0, 86, 0, 0, 0,
     0, 0, 0, 0, 0, 0, 0, 0, 0, 0, 0, 0, 6, 0, 0, 0, 115, 121, 115, 116,
     101, 109, 2, 0, 0, 0, 0, 0, 0, 0, 89, 0, 0, 0, 0, 0, 0, 0, 0, 0,
     0, 0, 0, 0, 0, 0, 11, 12, 13, 21, 22, 80, 75, 1, 2, 20, 0, 20, 0, 0,
     0, 8, 0, 0, 0, 0, 0, 0, 0, 0, 0, 2, 0, 0, 0, 2, 0, 0, 0, 11,
     0, 0, 0, 0, 0, 0, 0, 0, 0, 0, 0, 0, 0, 0, 0, 0, 0, 112, 97, 121,
     108, 111, 97, 100, 46, 98, 105, 110, 80, 75, 1, 2, 20, 0, 20, 0, 0, 0, 0, 0,
     0, 0, 0, 0, 0, 0, 0, 0, 4, 0, 0, 0, 4, 0, 0, 0, 11, 0, 0, 0,
     0, 0, 0, 0, 0, 0, 0, 0, 0, 0, 43, 0, 0, 0, 112, 97, 121, 108, 111, 97,
     100, 46, 105, 109, 103, 80, 75, 1, 2, 20, 0, 20, 0, 0, 0, 0, 0, 0, 0, 0,
     0, 0, 0, 0, 0, 4, 0, 0, 0, 4, 0, 0, 0, 11, 0, 0, 0, 0, 0, 0,
     0, 0, 0, 0, 0, 0, 0, 88, 0, 0, 0, 80, 65, 89, 76, 79, 65, 68, 46, 66,
     73, 78, 80, 75, 1, 2, 20, 0, 20, 0, 0, 0, 0, 0, 0, 0, 0, 0, 0, 0,
     0, 0, 1, 0, 0, 0, 1, 0, 0, 0, 6, 0, 0, 0, 0, 0, 0, 0, 0, 0,
     0, 0, 0, 0, 92, 0, 0, 0, 114, 101, 97, 100, 109, 101, 80, 75, 1, 2, 20, 0,
     20, 0, 0, 0, 0, 0, 0, 0, 0, 0, 0, 0, 0, 0, 91, 0, 0, 0, 91, 0,
     0, 0, 15, 0, 0, 0, 0, 0, 0, 0, 0, 0, 0, 0, 0, 0, 129, 0, 0, 0,
     79, 84, 65, 47, 112, 97, 121, 108, 111, 97, 100, 46, 98, 105, 110, 80, 75, 5, 6, 0,
     0, 0, 0, 5, 0, 5, 0, 28, 1, 0, 0, 15, 1, 0, 0, 0, 0 >>

\* The same archive without its last two entries: no candidate validates.
NoneBody == MultiDeflated \o MultiImg \o MultiJunk

NoneArchive ==
  NoneBody \o MultiRejected \o ZipEocd(3, LE32(Len(MultiRejected)), LE32(Len(NoneBody)))

\* The bytes of NoneArchive, written out.
NoneResource ==
  << 80, 75, 3, 4, 20, 0, 0, 0, 8, 0, 0, 0, 0, 0, 0, 0, 0, 0, 2, 0,
     0, 0, 2, 0, 0, 0, 11, 0, 0, 0, 112, 97, 121, 108, 111, 97, 100, 46, 98, 105,
     110, 1, 2, 80, 75, 3, 4, 20, 0, 0, 0, 0, 0, 0, 0, 0, 0, 0, 0, 0,
     0, 4, 0, 0, 0, 4, 0, 0, 0, 11, 0, 0, 0, 112, 97, 121, 108, 111, 97, 100,
     46, 105, 109, 103, 9, 9, 9, 9, 0, 0, 0, 0, 80, 75, 1, 2, 20, 0, 20, 0,
     0, 0, 8, 0, 0, 0, 0, 0, 0, 0, 0, 0, 2, 0, 0, 0, 2, 0, 0, 0,
     11, 0, 0, 0, 0, 0, 0, 0, 0, 0, 0, 0, 0, 0, 0, 0, 0, 0, 112, 97,
     121, 108, 111, 97, 100, 46, 98, 105, 110, 80, 75, 1, 2, 20, 0, 20, 0, 0, 0, 0,
     0, 0, 0, 0, 0, 0, 0, 0, 0, 4, 0, 0, 0, 4, 0, 0, 0, 11, 0, 0,
     0, 0, 0, 0, 0, 0, 0, 0, 0, 0, 0, 43, 0, 0, 0, 112, 97, 121, 108, 111,
     97, 100, 46, 105, 109, 103, 80, 75, 1, 2, 20, 0, 20, 0, 0, 0, 0, 0, 0, 0,
     0, 0, 0, 0, 0, 0, 4, 0, 0, 0, 4, 0, 0, 0, 11, 0, 0, 0, 0, 0,
     0, 0, 0, 0, 0, 0, 0, 0, 88, 0, 0, 0, 80, 65, 89, 76, 79, 65, 68, 46,
     66, 73, 78, 80, 75, 5, 6, 0, 0, 0, 0, 3, 0, 3, 0, 171, 0, 0, 0, 92,
     0, 0, 0, 0, 0 >>

\* ZipBody, Zip64Cd and an EOCD whose central directory offset is the
\* sentinel, with no ZIP64 EOCD record and no locator before the EOCD (as
\* when the locator lies outside the tail window), written out.
NoLocatorResource ==
  << 80, 75, 3, 4, 20, 0, 0, 0, 0, 0, 0, 0, 0, 0, 0, 0, 0, 0, 91, 0,
     0, 0, 91, 0, 0, 0, 11, 0, 0, 0, 112, 97, 121, 108, 111, 97, 100, 46, 98, 105,
     110, 58, 255, 38, 237, 2, 0, 0, 0, 86, 0, 0, 0, 0, 0, 0, 0, 2, 0, 0,
     0, 4, 0, 0, 0, 98, 111, 111, 116, 3, 0, 0, 0, 0, 0, 0, 0, 86, 0, 0,
     0, 0, 0, 0, 0, 0, 0, 0, 0, 0, 0, 0, 0, 6, 0, 0, 0, 115, 121, 115,
     116, 101, 109, 2, 0, 0, 0, 0, 0, 0, 0, 89, 0, 0, 0, 0, 0, 0, 0, 0,
     0, 0, 0, 0, 0, 0, 0, 11, 12, 13, 21, 22, 80, 75, 1, 2, 20, 0, 20, 0,
     0, 0, 0, 0, 0, 0, 0, 0, 0, 0, 0, 0, 91, 0, 0, 0, 91, 0, 0, 0,
     11, 0, 18, 0, 0, 0, 0, 0, 0, 0, 0, 0, 0, 0, 255, 255, 255, 255, 112, 97,
     121, 108, 111, 97, 100, 46, 98, 105, 110, 7, 0, 2, 0, 0, 0, 1, 0, 8, 0, 0,
     0, 0, 0, 0, 0, 0, 0, 80, 75, 5, 6, 0, 0, 0, 0, 1, 0, 1, 0, 75,
     0, 0, 0, 255, 255, 255, 255, 0, 0 >>

\* An archive of two stored entries: payload.bin.sig, four bytes that are no
\* payload, and payload.bin holding RawResource.
SigResource ==
  LET sig == FN_payload \o <<46, 115, 105, 103>>
      first == ZipLocalHeader(sig, <<>>, 0, 4) \o <<9, 9, 9, 9>>
      cd == ZipCdRecord(sig, <<>>, 0, 4, LE32(0))
              \o ZipCdRecord(FN_payload, <<>>, 0, Len(RawResource), LE32(Len(first)))
  IN  first \o ZipBody \o cd \o ZipEocd(2, LE32(Len(cd)), LE32(Len(first) + Len(ZipBody)))

\* An archive of two stored entries that both hold RawResource: payload.bin
\* and OTA/payload.bin.
TwinResource ==
  LET second == ZipLocalHeader(possibleNames[9], <<>>, 0, Len(RawResource)) \o RawResource
      cd == ZipCd \o ZipCdRecord(possibleNames[9], <<>>, 0, Len(RawResource),
                                 LE32(Len(ZipBody)))
  IN  ZipBody \o second \o cd
        \o ZipEocd(2, LE32(Len(cd)), LE32(Len(ZipBody) + Len(second)))

\* Neither a ZIP nor a payload.
UnknownResource == <<1, 2, 3, 4, 5, 6, 7, 8>>

\* 'CrAU' payload whose partitions use only REPLACE and ZERO.
CrauBody == <<65, 66, 67, 68, 69, 70>>

CrauManifest ==
  FilePart(N_boot, 2, FileOp(REPLACE, 0, 4) \o FileOp(ZERO, 0, 4))
    \o FilePart(N_system, 1, FileOp(REPLACE, 4, 2))

CrauResource == FilePayload(2, CrauManifest, CrauBody)

\* 'CrAU' payload whose system partition holds a COPY after a REPLACE.
DeltaManifest ==
  FilePart(N_boot, 2, FileOp(REPLACE, 0, 4) \o FileOp(ZERO, 0, 4))
    \o FilePart(N_system, 2, FileOp(REPLACE, 4, 2) \o FileOp(COPY, 0, 1))

DeltaResource == FilePayload(2, DeltaManifest, CrauBody)

\* 'CrAU' payload whose system partition begins with an operation of the
\* given type, followed by a REPLACE.
UnsupportedResource(type) ==
  FilePayload(2, FilePart(N_boot, 1, FileOp(ZERO, 0, 1))
                   \o FilePart(N_system, 2, FileOp(type, 0, 1) \o FileOp(REPLACE, 4, 2)),
              CrauBody)

\* The payload of CrauResource with 3 in its version field.
CrauV3Resource == FilePayload(3, CrauManifest, CrauBody)

\* A raw payload of one entry whose name has n bytes.
NamedResource(n) ==
  UrlPayload(2, 1, UrlEntry([i \in 1..n |-> 97], 1, 20 + 4 + n + 24), <<7>>)

\* A raw payload whose only entry, boot, declares four bytes where the
\* resource has two left.
OverResource == UrlPayload(2, 1, UrlEntry(N_boot, 4, 20 + 4 + Len(N_boot) + 24), <<7, 8>>)

\* A raw payload with two entries named boot: the first covers the byte 7,
\* the second the byte 8.
DupResource ==
  UrlPayload(2, 2, UrlEntry(N_boot, 1, 20 + 2 * (4 + Len(N_boot) + 24))
                     \o UrlEntry(N_boot, 1, 20 + 2 * (4 + Len(N_boot) + 24) + 1),
             <<7, 8>>)

\* A 'CrAU' payload with two partitions named boot: the first replaces with
\* the body bytes AB, the second with CD.
DupFileResource ==
  FilePayload(2, FilePart(N_boot, 1, FileOp(REPLACE, 0, 2))
                   \o FilePart(N_boot, 1, FileOp(REPLACE, 2, 2)),
              CrauBody)

\* A raw payload that ends inside the name of its only entry.
CutResource == UrlPayload(2, 1, LE32(4) \o <<98, 111>>, <<>>)

\* A raw payload of well-formed entries, each with a name of 256 bytes, one
\* more than the header window can hold; every entry covers the one data byte.
BigResource ==
  LET len == 4 + 256 + 24
      n == HeaderWindow \div len + 1
      entries == [i \in 1..(n * len) |->
                    LET p == ((i - 1) % len) + 1
                    IN  IF p <= 4 THEN LE32(256)[p]
                        ELSE IF p <= 4 + 256 THEN 97
                        ELSE IF p <= 4 + 256 + 8 THEN LE64(1)[p - (4 + 256)]
                        ELSE IF p <= 4 + 256 + 16 THEN LE64(20 + n * len)[p - (4 + 256 + 8)]
                        ELSE 0]
  IN  UrlPayload(2, n, entries, <<7>>)

\* A resource of distinct bytes, for stand-alone downloadRange calls:
\* the byte at position p has value 100 + p; position MaxPos is past its end.
RampResource == [i \in 1..MaxPos |-> 99 + i]

\* A resource that ends inside the second chunk of a download from its last
\* byte on: the first 2 * MaxChunkSize - 1 bytes of the ramp.
StubResource == [i \in 1..(2 * MaxChunkSize - 1) |-> 99 + i]

Resources ==
  [raw |-> RawResource, zip |-> ZipResource, zip64 |-> Zip64Resource,
   unknown |-> UnknownResource,
   crau |-> CrauResource, delta |-> DeltaResource, ramp |-> RampResource,
   stub |-> StubResource, multi |-> MultiResource, none |-> NoneResource,
   nolocator |-> NoLocatorResource, sig |-> SigResource,
   twin |-> TwinResource,
   crauv3 |-> CrauV3Resource, name0 |-> NamedResource(0),
   name257 |-> NamedResource(257), cut |-> CutResource, big |-> BigResource,
   over |-> OverResource, dup |-> DupResource, dupfile |-> DupFileResource,
   bsdiff |-> UnsupportedResource(BSDIFF), optype9 |-> UnsupportedResource(9)]

----------------------------------------------------------------------------
(* Results of the parsers: a value, or the Error that was thrown.  An     *)
(* error message is the chain of its wrappers, outermost first.            *)

Ok(v) == [ok |-> TRUE, val |-> v, err |-> <<>>]

Err(msg) == [ok |-> FALSE, val |-> <<>>, err |-> <<msg>>]

\* throw new Error(`${prefix}: ${errorMessage}`) around a failed result.
Wrap(prefix, r) == [ok |-> FALSE, val |-> <<>>, err |-> <<prefix>> \o r.err]

\* A DataView read outside the buffer.
RangeError == Err("RangeError: Offset is outside the bounds of the DataView")

\* new TextDecoder().decode(bytes): ASCII decodes to itself, any other byte
\* to U+FFFD.
Decode(bytes) == [i \in 1..Len(bytes) |-> IF bytes[i] < 128 THEN bytes[i] ELSE 65533]

\* Seeded fault: the last entry of the name is taken.
FindLast(names, name) ==
  IF \E i \in 1..Len(names) : names[i] = name
  THEN CHOOSE i \in 1..Len(names) :
         names[i] = name /\ \A j \in (i + 1)..Len(names) : names[j] # name
  ELSE 0

\* Array.prototype.find / findIndex on names: the first index, 0 if none.
FindName(names, name) ==
  IF \E i \in 1..Len(names) : names[i] = name
  THEN CHOOSE i \in 1..Len(names) :
         names[i] = name /\ \A j \in 1..(i - 1) : names[j] # name
  ELSE 0

----------------------------------------------------------------------------
(* readPayloadHeader, from the header window on.                           *)

\* Lines 469-500: the checks on the fixed header; the manifest count.
HeaderChecks(buf) ==
  IF Len(buf) < 8 THEN Err("Invalid payload header: too small")
  ELSE IF B4(buf, 0) # WORKER_MAGIC THEN Err("Invalid payload magic number")
  ELSE IF B4(buf, 4) # LE32(PAYLOAD_VERSION) THEN Err("Unsupported version")
  ELSE IF ~CanRead(buf, 8, 8) THEN RangeError
  ELSE IF U64(buf, 8) <= 0 \/ U64(buf, 8) > Len(buf) THEN Err("Invalid header size")
  ELSE IF ~CanRead(buf, 16, 4) THEN RangeError
  ELSE IF U32(buf, 16) <= 0 \/ U32(buf, 16) > 100 THEN Err("Invalid manifest count")
  ELSE Ok(U32(buf, 16))

\* Lines 506-545: the body of one iteration of the manifest loop, entered
\* with offset + 4 <= byteLength.
DecodeEntry(buf, zipOffset, offset) ==
  LET nameLength == U32(buf, offset)
      o1 == offset + 4
  IN  IF nameLength <= 0 \/ nameLength > 256 \/ o1 + nameLength > Len(buf)
      THEN Err("Invalid name length")
      ELSE
        LET name == Decode(Slice(buf, o1, o1 + nameLength))
            o2 == o1 + nameLength
        IN  IF o2 + 24 > Len(buf) THEN Err("Buffer overflow")
            ELSE IF U64(buf, o2) <= 0 THEN Err("Invalid partition size")
            ELSE Ok([offset |-> o2 + 24,
                     entry |-> [name |-> name, size |-> U64(buf, o2),
                                offset |-> zipOffset + U64(buf, o2 + 8)]])

----------------------------------------------------------------------------
(* PayloadParser (local files).                                            *)

RECURSIVE ParseOperations(_, _, _, _)
ParseOperations(bytes, offset, numOperations, operations) ==
  IF numOperations = 0 THEN Ok([offset |-> offset, operations |-> operations])
  ELSE IF ~CanRead(bytes, offset, 16) THEN RangeError
  ELSE ParseOperations(bytes, offset + 20, numOperations - 1,
         Append(operations, [type |-> U32(bytes, offset),
                             dataOffset |-> U32(bytes, offset + 4),
                             dataLength |-> U32(bytes, offset + 12)]))

RECURSIVE ParseManifest(_, _, _)
ParseManifest(bytes, offset, partitions) ==
  IF ~(offset < Len(bytes)) THEN Ok(partitions)
  ELSE IF ~CanRead(bytes, offset, 4) THEN RangeError
  ELSE
    LET partitionNameLength == U32(bytes, offset)
        o1 == offset + 4
        partitionName == Decode(Slice(bytes, o1, o1 + partitionNameLength))
        o2 == o1 + partitionNameLength
    IN  IF ~CanRead(bytes, o2, 4) THEN RangeError
        ELSE
          LET ops == ParseOperations(bytes, o2 + 4, U32(bytes, o2), <<>>)
          IN  IF ~ops.ok THEN ops
              ELSE ParseManifest(bytes, ops.val.offset,
                     Append(partitions, [partitionName |-> partitionName,
                                         operations |-> ops.val.operations]))

\* PayloadParser.parse: the manifest and this.offset as parse leaves it.
Parse(buffer) ==
  IF Decode(Slice(buffer, 0, 4)) # PAYLOAD_MAGIC THEN Err("Invalid payload magic")
  ELSE IF ~CanRead(buffer, 4, 20) THEN RangeError
  ELSE
    LET manifestSize == U32(buffer, 12)
        metadataSignatureSize == U32(buffer, 20)
        o1 == 24 + metadataSignatureSize
        m == ParseManifest(Slice(buffer, o1, o1 + manifestSize), 0, <<>>)
    IN  IF ~m.ok THEN m
        ELSE Ok([partitions |-> m.val, offset |-> o1 + manifestSize])

RECURSIVE RunOperations(_, _, _, _)
RunOperations(buffer, bodyOffset, operations, chunks) ==
  IF operations = <<>> THEN Ok(chunks)
  ELSE
    LET operation == Head(operations)
    IN  IF operation.type = REPLACE
        THEN RunOperations(buffer, bodyOffset, Tail(operations),
               chunks \o Slice(buffer, bodyOffset + operation.dataOffset,
                               bodyOffset + operation.dataOffset + operation.dataLength))
        ELSE IF operation.type = ZERO
        THEN RunOperations(buffer, bodyOffset, Tail(operations),
               chunks \o Zeros(operation.dataLength))
        ELSE Err("Unsupported operation type")

\* Seeded fault: the default case of the switch breaks instead of throwing.
ExtractSupported(buffer, parsed, partitionName) ==
  LET names == [i \in 1..Len(parsed.partitions) |-> parsed.partitions[i].partitionName]
      k == FindName(names, partitionName)
  IN  IF k = 0 THEN Err("Partition not found")
      ELSE RunOperations(buffer, parsed.offset,
                         SelectSeq(parsed.partitions[k].operations,
                                   LAMBDA op : op.type \in {REPLACE, ZERO}),
                         <<>>)

\* Seeded fault: this.offset is left out of the slice of a REPLACE.
ExtractFromStart(buffer, parsed, partitionName) ==
  LET names == [i \in 1..Len(parsed.partitions) |-> parsed.partitions[i].partitionName]
      k == FindName(names, partitionName)
  IN  IF k = 0 THEN Err("Partition not found")
      ELSE RunOperations(buffer, 0, parsed.partitions[k].operations, <<>>)

\* PayloadParser.extractPartition: the bytes of the returned Blob.
ExtractPartition(buffer, parsed, partitionName) ==
  LET names == [i \in 1..Len(parsed.partitions) |-> parsed.partitions[i].partitionName]
      k == FindName(names, partitionName)
  IN  IF k = 0 THEN Err("Partition not found")
      ELSE RunOperations(buffer, parsed.offset, parsed.partitions[k].operations, <<>>)

----------------------------------------------------------------------------
(* State.                                                                  *)

VARIABLES
  sess,      \* per 'process' message: the position and locals of its handler
  inflight,  \* requests issued and not yet answered
  events,    \* the messages the worker has posted, oldest first
  main       \* the PayloadHandler of the main thread and its processPayload calls

vars == <<sess, inflight, events, main>>

Sessions == 1..MaxSessions

NoInfo == [type |-> "none", source |-> "raw", partitions |-> <<>>]

\* A handler invocation that has not started: every local at its default.
IdleSession ==
  [pc |-> "idle", info |-> NoInfo, bytes |-> <<>>, stack |-> <<>>, wrap |-> <<>>,
   payloadOffset |-> 0, zipOffset |-> 0, manifest |-> <<>>, idx |-> 0,
   cdBuffer |-> <<>>, offset |-> 0, localHeaderOffset |-> 0,
   zip64ExtraOffset |-> 0, fileDataOffset |-> 0,
   payloadBuffer |-> <<>>, manifestCount |-> 0, i |-> 0,
   start |-> 0, end |-> 0, currentStart |-> 0, retryCount |-> 0,
   chunks |-> <<>>, okReqs |-> <<>>, failedAttempts |-> 0, cause |-> <<>>,
   sent |-> 0,
   parsed |-> [partitions |-> <<>>, offset |-> 0],
   result |-> <<>>, err |-> <<>>]

\* The ways a request can end: a 2xx response carrying the requested bytes,
\* a response with an error status, or a rejected fetch (network error).
Outcomes == {"ok", "http", "reject"}

\* The bytes behind the url, or of the file, of the message: the session
\* keeps them from the arrival of its message on.
Resource(st) == st.bytes

\* A request: GET with Range bytes=a-b ("range"), GET with Range
\* bytes=-a ("suffix"), HEAD ("head"), File.arrayBuffer() ("file"), or the
\* setTimeout of the retry backoff ("timer").
Req(s, op, a, b) == [sid |-> s, op |-> op, a |-> a, b |-> b]

\* The body of a 2xx response: the requested bytes, cut at the end of the
\* resource.
Body(st, r) ==
  IF r.op = "suffix" THEN Slice(Resource(st), Len(Resource(st)) - r.a, Len(Resource(st)))
  ELSE IF r.op = "range" THEN Slice(Resource(st), r.a, r.b + 1)
  ELSE <<>>

\* The ways a request of downloadRange can end: as above, or with a 200
\* response that ignores the Range header and carries the whole resource
\* (response.ok holds, lines 84 and 116).
DownloadOutcomes == Outcomes \cup {"whole"}

\* The bytes of a 2xx response to a request of downloadRange.
Received(st, r, o) == IF o = "whole" THEN Resource(st) ELSE Body(st, r)

\* Outcome o is possible for request r: a range that starts past the end of
\* the resource, or is empty, is not answered with 2xx.
Possible(st, r, o) ==
  o = "ok" /\ r.op = "range" => r.a <= r.b /\ r.a < Len(Resource(st))

\* What a handler step leaves behind: the session's new locals, the requests
\* it issued and the messages it posted.
Await(st, pc, req) == [st |-> [st EXCEPT !.pc = pc], reqs |-> {req}, evs |-> <<>>]

Goto(st, pc) == [st |-> [st EXCEPT !.pc = pc], reqs |-> {}, evs |-> <<>>]

Event(s, type, partition, data, error) ==
  [sid |-> s, type |-> type, partition |-> partition, data |-> data, error |-> error]

\* Seeded fault: the success message is posted in a finally block, so it
\* follows the error message too.
ThrowThenSuccess(s, st, msg) ==
  IF st.info.type = "call"
  THEN [st |-> [st EXCEPT !.pc = "thrown", !.err = st.wrap \o msg],
        reqs |-> {}, evs |-> <<>>]
  ELSE [st |-> [IdleSession EXCEPT !.pc = "done", !.info = st.info, !.bytes = st.bytes,
                                   !.manifest = st.manifest, !.parsed = st.parsed,
                                   !.err = st.wrap \o msg],
        reqs |-> {},
        evs |-> <<Event(s, "error", <<>>, <<>>, st.wrap \o msg),
                  Event(s, "success", <<>>, <<>>, <<>>)>>]

\* Seeded fault: the catch inside the partition loop posts the error and the
\* loop goes on with the next requested name.
ThrowAndGoOn(s, st, msg) ==
  IF st.info.type = "call"
  THEN [st |-> [st EXCEPT !.pc = "thrown", !.err = st.wrap \o msg],
        reqs |-> {}, evs |-> <<>>]
  ELSE IF st.pc \in {"D_single", "D_chunk"}
  THEN [st |-> [st EXCEPT !.pc = "P_loop", !.idx = @ + 1],
        reqs |-> {},
        evs |-> <<Event(s, "error", <<>>, <<>>, st.wrap \o msg)>>]
  ELSE [st |-> [IdleSession EXCEPT !.pc = "done", !.info = st.info, !.bytes = st.bytes,
                                   !.manifest = st.manifest, !.parsed = st.parsed,
                                   !.err = st.wrap \o msg],
        reqs |-> {},
        evs |-> <<Event(s, "error", <<>>, <<>>, st.wrap \o msg)>>]

\* An Error thrown at the current position: each enclosing catch rethrows it
\* under its prefix, and self.onmessage posts the error message (lines
\* 575-582).  A stand-alone call of downloadRange just ends thrown.
Throw(s, st, msg) ==
  IF st.info.type = "call"
  THEN [st |-> [st EXCEPT !.pc = "thrown", !.err = st.wrap \o msg],
        reqs |-> {}, evs |-> <<>>]
  ELSE [st |-> [IdleSession EXCEPT !.pc = "done", !.info = st.info, !.bytes = st.bytes,
                                   !.manifest = st.manifest, !.parsed = st.parsed,
                                   !.err = st.wrap \o msg],
        reqs |-> {},
        evs |-> <<Event(s, "error", <<>>, <<>>, st.wrap \o msg)>>]

\* What a step of session s that consumed request r does to the worker.
Effect(s, r, k) ==
  /\ sess' = [sess EXCEPT ![s] = k.st]
  /\ inflight' = (inflight \ r) \cup k.reqs
  /\ events' = events \o k.evs

\* The effect of one step of session s that consumed request r.
Commit(s, r, k) == Effect(s, r, k) /\ UNCHANGED main

\* The request session s is suspended on.
Awaited(s, pc, r) == sess[s].pc = pc /\ r \in inflight /\ r.sid = s

\* The message of a failed request that is not a 2xx response.
FetchRejected == <<"TypeError: Failed to fetch">>

----------------------------------------------------------------------------
(* readZipPayload.                                                         *)

\* String.prototype.toLowerCase and includes, on decoded text.
ToLowerCase(str) ==
  [k \in 1..Len(str) |-> IF str[k] >= 65 /\ str[k] <= 90 THEN str[k] + 32 ELSE str[k]]

Includes(str, sub) ==
  \E k \in 0..(Len(str) - Len(sub)) : SubSeq(str, k + 1, k + Len(sub)) = sub

\* Lines 329-331.
IsPayloadFile(fileName) ==
  \E n \in 1..Len(possibleNames) :
    Includes(ToLowerCase(fileName), ToLowerCase(possibleNames[n]))

\* Lines 183-193: the backward scan of the tail window, from index i down.
RECURSIVE FindEocd(_, _)
FindEocd(endBuffer, i) ==
  IF i < 0 THEN [eocdOffset |-> -1, isZip64 |-> FALSE]
  ELSE IF B4(endBuffer, i) = ZIP64_EOCD_SIG THEN [eocdOffset |-> i, isZip64 |-> TRUE]
  ELSE IF B4(endBuffer, i) = ZIP_EOCD_SIG THEN [eocdOffset |-> i, isZip64 |-> FALSE]
  ELSE FindEocd(endBuffer, i - 1)

\* Fields of the central directory record at the scan offset.
FileNameLength(st) == U16(st.cdBuffer, st.offset + 28)

ExtraFieldLength(st) == U16(st.cdBuffer, st.offset + 30)

FileCommentLength(st) == U16(st.cdBuffer, st.offset + 32)

CompressionMethod(st) == U16(st.cdBuffer, st.offset + 10)

FileName(st) ==
  Decode(Slice(st.cdBuffer, st.offset + 46, st.offset + 46 + FileNameLength(st)))

\* The call: line 154, the HEAD request.
CallReadZipPayload(s, st, ret) ==
  Await([st EXCEPT !.stack = <<ret>> \o @], "Z_head", Req(s, "head", 0, 0))

\* Lines 258-263: the request for the central directory.
FetchCentralDirectory(s, st, cdOffset, cdSize) ==
  Await(st, "Z_cd", Req(s, "range", cdOffset, cdOffset + cdSize - 1))

\* Seeded fault: continue without advancing offset.
NextRecordStuck(st) ==
  Goto([st EXCEPT !.localHeaderOffset = 0, !.zip64ExtraOffset = 0,
                  !.fileDataOffset = 0],
       "Z_scan")

\* offset += 46 + fileNameLength + extraFieldLength + fileCommentLength; the
\* loop goes on with the next record.
NextRecord(st) ==
  Goto([st EXCEPT !.offset = @ + 46 + FileNameLength(st) + ExtraFieldLength(st)
                                + FileCommentLength(st),
                  !.localHeaderOffset = 0, !.zip64ExtraOffset = 0,
                  !.fileDataOffset = 0],
       "Z_scan")

\* Lines 328-348: the candidate test, once localHeaderOffset is known.
CheckCandidate(s, st) ==
  IF IsPayloadFile(FileName(st))
  THEN IF CompressionMethod(st) # 0 THEN NextRecord(st)
       ELSE Await(st, "Z_local",
                  Req(s, "range", st.localHeaderOffset, st.localHeaderOffset + 1024))
  ELSE NextRecord(st)

\* ReturnFromZip handing back the offset of the local header instead of the
\* offset of the entry's data.
ReturnLocalHeader(s, st) ==
  LET ret == Head(st.stack)
      off == st.localHeaderOffset
      st1 == [st EXCEPT !.stack = Tail(@), !.cdBuffer = <<>>, !.offset = 0,
                        !.localHeaderOffset = 0, !.zip64ExtraOffset = 0,
                        !.fileDataOffset = 0]
  IN  IF ret = "U_zip"
      THEN Await([st1 EXCEPT !.payloadOffset = off], "U_header",
                 Req(s, "range", off, off + (HeaderWindow - 1)))
      ELSE Await([st1 EXCEPT !.zipOffset = off], "H_ziphdr",
                 Req(s, "range", off, off + (HeaderWindow - 1)))

\* Lines 395-398 and the caller's continuation: processUrl lines 629-644,
\* readPayloadHeader lines 438-446.
ReturnFromZip(s, st) ==
  LET ret == Head(st.stack)
      off == st.fileDataOffset
      st1 == [st EXCEPT !.stack = Tail(@), !.cdBuffer = <<>>, !.offset = 0,
                        !.localHeaderOffset = 0, !.zip64ExtraOffset = 0,
                        !.fileDataOffset = 0]
  IN  IF ret = "U_zip"
      THEN Await([st1 EXCEPT !.payloadOffset = off], "U_header",
                 Req(s, "range", off, off + (HeaderWindow - 1)))
      ELSE Await([st1 EXCEPT !.zipOffset = off], "H_ziphdr",
                 Req(s, "range", off, off + (HeaderWindow - 1)))

\* Lines 154-169: the HEAD response; the request for the tail window.
Z_head(s) ==
  \E r \in inflight, o \in Outcomes :
    /\ Awaited(s, "Z_head", r)
    /\ LET st == sess[s]
           fileSize == IF o = "ok" THEN Len(Resource(st)) ELSE 0
           endSize == Min(TailWindow, IF fileSize = 0 THEN TailWindow ELSE fileSize)
       IN  Commit(s, {r},
             IF o = "reject" THEN Throw(s, st, FetchRejected)
             ELSE Await(st, "Z_tail", Req(s, "suffix", endSize, 0)))

\* Lines 171-263: the tail window; EOCD, ZIP64 switch, central directory request.
Z_tail(s) ==
  \E r \in inflight, o \in Outcomes :
    /\ Awaited(s, "Z_tail", r)
    /\ LET st == sess[s]
           endBuffer == Body(st, r)
           e == FindEocd(endBuffer, Len(endBuffer) - 22)
           at == e.eocdOffset
           locOffset == at - 20
       IN  Commit(s, {r},
             IF o = "reject" THEN Throw(s, st, FetchRejected)
             ELSE IF o = "http" THEN Throw(s, st, <<"Failed to fetch ZIP end">>)
             ELSE IF at = -1
               THEN Throw(s, st, <<"ZIP end of central directory not found">>)
             ELSE IF e.isZip64
               THEN IF ~CanRead(endBuffer, at + 32, 24) THEN Throw(s, st, RangeError.err)
                    ELSE FetchCentralDirectory(s, st, U64(endBuffer, at + 48),
                                               U64(endBuffer, at + 40))
             ELSE IF /\ \/ B4(endBuffer, at + 16) = SENTINEL32
                        \/ B4(endBuffer, at + 12) = SENTINEL32
                        \/ U16(endBuffer, at + 10) = 65535
                     /\ locOffset >= 0
                     /\ B4(endBuffer, locOffset) = ZIP64_LOC_SIG
               THEN Await(st, "Z_zip64",
                          Req(s, "range", U64(endBuffer, locOffset + 8),
                              U64(endBuffer, locOffset + 8) + (Zip64EocdWindow - 1)))
             ELSE FetchCentralDirectory(s, st, U32(endBuffer, at + 16),
                                        U32(endBuffer, at + 12)))

\* Lines 231-245: the ZIP64 EOCD record.
Z_zip64(s) ==
  \E r \in inflight, o \in Outcomes :
    /\ Awaited(s, "Z_zip64", r)
    /\ Possible(sess[s], r, o)
    /\ LET st == sess[s]
           zip64Buffer == Body(st, r)
       IN  Commit(s, {r},
             IF o = "reject" THEN Throw(s, st, FetchRejected)
             ELSE IF o = "http" THEN Throw(s, st, <<"Failed to fetch ZIP64 EOCD">>)
             ELSE IF ~CanRead(zip64Buffer, 0, 4) THEN Throw(s, st, RangeError.err)
             ELSE IF B4(zip64Buffer, 0) # ZIP64_EOCD_SIG
               THEN Throw(s, st, <<"Invalid ZIP64 EOCD signature">>)
             ELSE IF ~CanRead(zip64Buffer, 32, 24) THEN Throw(s, st, RangeError.err)
             ELSE FetchCentralDirectory(s, st, U64(zip64Buffer, 48), U64(zip64Buffer, 40)))

\* Lines 265-271: the central directory.
Z_cd(s) ==
  \E r \in inflight, o \in Outcomes :
    /\ Awaited(s, "Z_cd", r)
    /\ Possible(sess[s], r, o)
    /\ LET st == sess[s]
       IN  Commit(s, {r},
             IF o = "reject" THEN Throw(s, st, FetchRejected)
             ELSE IF o = "http" THEN Throw(s, st, <<"Failed to fetch central directory">>)
             ELSE Goto([st EXCEPT !.cdBuffer = Body(st, r), !.offset = 0], "Z_scan"))

NoPayloadFound == <<"No valid payload file found in ZIP central directory">>

\* Lines 287-333: one iteration of the central directory loop, up to the
\* candidate test or the ZIP64 extra-field loop.
Z_scan(s) ==
  /\ sess[s].pc = "Z_scan"
  /\ LET st == sess[s]
         cd == st.cdBuffer
     IN  Commit(s, {},
           IF ~(st.offset < Len(cd)) THEN Throw(s, st, NoPayloadFound)
           ELSE IF ~CanRead(cd, st.offset, 4) THEN Throw(s, st, RangeError.err)
           ELSE IF B4(cd, st.offset) # ZIP_CD_SIG THEN Throw(s, st, NoPayloadFound)
           ELSE IF ~CanRead(cd, st.offset, 46) THEN Throw(s, st, RangeError.err)
           ELSE IF st.offset + 46 + FileNameLength(st) > Len(cd)
             THEN Throw(s, st, RangeError.err)
           ELSE IF B4(cd, st.offset + 42) = SENTINEL32
             THEN Goto([st EXCEPT !.localHeaderOffset = Huge,
                                  !.zip64ExtraOffset = st.offset + 46 + FileNameLength(st)],
                       "Z_extra")
           ELSE CheckCandidate(s, [st EXCEPT !.localHeaderOffset = U32(cd, st.offset + 42)]))

\* Lines 315-325: one iteration of the ZIP64 extra-field loop, or its exit.
Z_extra(s) ==
  /\ sess[s].pc = "Z_extra"
  /\ LET st == sess[s]
         cd == st.cdBuffer
         x == st.zip64ExtraOffset
         zip64ExtraEnd == st.offset + 46 + FileNameLength(st) + ExtraFieldLength(st)
     IN  Commit(s, {},
           IF ~(x < zip64ExtraEnd) THEN CheckCandidate(s, st)
           ELSE IF ~CanRead(cd, x, 4) THEN Throw(s, st, RangeError.err)
           ELSE IF U16(cd, x) = 1
             THEN IF ~CanRead(cd, x + 4, 8) THEN Throw(s, st, RangeError.err)
                  ELSE CheckCandidate(s, [st EXCEPT !.localHeaderOffset = U64(cd, x + 4)])
           ELSE Goto([st EXCEPT !.zip64ExtraOffset = x + 4 + U16(cd, x + 2)], "Z_extra"))

\* Lines 350-376: the local file header; the request for the payload magic.
Z_local(s) ==
  \E r \in inflight, o \in Outcomes :
    /\ Awaited(s, "Z_local", r)
    /\ Possible(sess[s], r, o)
    /\ LET st == sess[s]
           headerBuffer == Body(st, r)
           fileDataOffset == st.localHeaderOffset + 30 + U16(headerBuffer, 26)
                               + U16(headerBuffer, 28)
       IN  Commit(s, {r},
             IF o = "reject" THEN Throw(s, st, FetchRejected)
             ELSE IF o = "http" THEN NextRecord(st)
             ELSE IF ~CanRead(headerBuffer, 0, 4) THEN Throw(s, st, RangeError.err)
             ELSE IF B4(headerBuffer, 0) # ZIP_LOCAL_SIG THEN NextRecord(st)
             ELSE IF ~CanRead(headerBuffer, 26, 4) THEN Throw(s, st, RangeError.err)
             ELSE Await([st EXCEPT !.fileDataOffset = fileDataOffset], "Z_magic",
                        Req(s, "range", fileDataOffset, fileDataOffset + 7)))

\* Lines 378-407: the bytes at the data offset; return, or the next record.
Z_magic(s) ==
  \E r \in inflight, o \in Outcomes :
    /\ Awaited(s, "Z_magic", r)
    /\ Possible(sess[s], r, o)
    /\ LET st == sess[s]
           payloadHeaderBuffer == Body(st, r)
       IN  Commit(s, {r},
             IF o # "ok" THEN NextRecord(st)
             ELSE IF ~CanRead(payloadHeaderBuffer, 0, 4) THEN NextRecord(st)
             ELSE IF B4(payloadHeaderBuffer, 0) = WORKER_MAGIC THEN ReturnFromZip(s, st)
             ELSE NextRecord(st))

----------------------------------------------------------------------------
(* downloadRange.                                                          *)

\* Seeded fault: each chunk is written in front of the chunks before it.
RECURSIVE MergeReversed(_)
MergeReversed(chunks) ==
  IF chunks = <<>> THEN <<>> ELSE MergeReversed(Tail(chunks)) \o Head(chunks)

\* Lines 140-146: the chunks merged in order.
RECURSIVE Merge(_)
Merge(chunks) == IF chunks = <<>> THEN <<>> ELSE Head(chunks) \o Merge(Tail(chunks))

\* Seeded fault: the chunk end is one byte too far.
ChunkEndLong(currentStart, end) == Min(currentStart + MaxChunkSize, end)

\* Line 105.
ChunkEnd(currentStart, end) == Min(currentStart + MaxChunkSize - 1, end)

\* Seeded fault: a chunked call requests its first two chunks at once.
DownloadRangeAhead(s, st, start, end) ==
  LET st1 == [st EXCEPT !.start = start, !.end = end, !.currentStart = start,
                        !.retryCount = 0, !.chunks = <<>>, !.okReqs = <<>>,
                        !.failedAttempts = 0, !.cause = <<>>, !.sent = 1]
      second == ChunkEnd(start, end) + 1
  IN  IF start < 0 \/ end < start THEN Throw(s, [st1 EXCEPT !.sent = 0], <<"Invalid range">>)
      ELSE IF end - start + 1 <= MaxChunkSize
        THEN Await(st1, "D_single", Req(s, "range", start, end))
      ELSE [st |-> [st1 EXCEPT !.pc = "D_chunk", !.sent = 2],
            reqs |-> {Req(s, "range", start, ChunkEnd(start, end)),
                      Req(s, "range", second, ChunkEnd(second, end))},
            evs |-> <<>>]

\* Lines 66-114: the call, up to its first request.
DownloadRange(s, st, start, end) ==
  LET st1 == [st EXCEPT !.start = start, !.end = end, !.currentStart = start,
                        !.retryCount = 0, !.chunks = <<>>, !.okReqs = <<>>,
                        !.failedAttempts = 0, !.cause = <<>>, !.sent = 1]
  IN  IF start < 0 \/ end < start THEN Throw(s, [st1 EXCEPT !.sent = 0], <<"Invalid range">>)
      ELSE IF end - start + 1 <= MaxChunkSize
        THEN Await(st1, "D_single", Req(s, "range", start, end))
      ELSE Await(st1, "D_chunk", Req(s, "range", start, ChunkEnd(start, end)))

\* return of downloadRange; in processUrl, lines 684-704: the progress
\* message, and the loop goes on with the next requested name.
ReturnFromDownload(s, st, data) ==
  IF st.info.type = "call" THEN Goto([st EXCEPT !.result = data], "returned")
  ELSE [st |-> [st EXCEPT !.pc = "P_loop", !.idx = @ + 1, !.start = 0, !.end = 0,
                          !.currentStart = 0, !.retryCount = 0, !.chunks = <<>>,
                          !.okReqs = <<>>, !.failedAttempts = 0, !.cause = <<>>,
                          !.sent = 0],
        reqs |-> {},
        evs |-> <<Event(s, "progress", st.info.partitions[st.idx], data, <<>>)>>]

\* Lines 77-95: the response of the single request.
D_single(s) ==
  \E r \in inflight, o \in DownloadOutcomes :
    /\ Awaited(s, "D_single", r)
    /\ Possible(sess[s], r, o)
    /\ LET st == sess[s]
           failed == [st EXCEPT !.failedAttempts = @ + 1]
       IN  Commit(s, {r},
             IF o = "reject" THEN Throw(s, failed, FetchRejected)
             ELSE IF o = "http" THEN Throw(s, failed, <<"Failed to fetch range">>)
             ELSE ReturnFromDownload(s, [st EXCEPT !.okReqs = Append(@, <<r.a, r.b, Len(Received(st, r, o))>>)],
                                     Received(st, r, o)))

\* Seeded fault: a successful chunk leaves retryCount as it is.
D_chunkNoReset(s) ==
  \E r \in inflight, o \in DownloadOutcomes :
    /\ Awaited(s, "D_chunk", r)
    /\ Possible(sess[s], r, o)
    /\ LET st == sess[s]
           cause == IF o = "reject" THEN FetchRejected ELSE <<"Failed to fetch chunk">>
           ok == [st EXCEPT !.chunks = Append(@, Received(st, r, o)),
                            !.okReqs = Append(@, <<r.a, r.b, Len(Received(st, r, o))>>),
                            !.currentStart = r.b + 1,
                            !.failedAttempts = 0]
           failed == [st EXCEPT !.retryCount = @ + 1, !.failedAttempts = @ + 1,
                                !.cause = cause]
       IN  Commit(s, {r},
             IF o \in {"ok", "whole"}
             THEN IF ok.currentStart <= ok.end
                  THEN Await([ok EXCEPT !.sent = @ + 1], "D_chunk",
                             Req(s, "range", ok.currentStart,
                                 ChunkEnd(ok.currentStart, ok.end)))
                  ELSE ReturnFromDownload(s, ok, Merge(ok.chunks))
             ELSE IF failed.retryCount >= maxRetries
                  THEN Throw(s, failed,
                             <<"Failed to download chunk after 3 retries">> \o cause)
                  ELSE Await(failed, "D_backoff",
                             Req(s, "timer", 1000 * failed.retryCount, 0)))

\* Lines 104-137: the response of a chunk request.
D_chunk(s) ==
  \E r \in inflight, o \in DownloadOutcomes :
    /\ Awaited(s, "D_chunk", r)
    /\ Possible(sess[s], r, o)
    /\ LET st == sess[s]
           cause == IF o = "reject" THEN FetchRejected ELSE <<"Failed to fetch chunk">>
           ok == [st EXCEPT !.chunks = Append(@, Received(st, r, o)),
                            !.okReqs = Append(@, <<r.a, r.b, Len(Received(st, r, o))>>),
                            !.currentStart = r.b + 1, !.retryCount = 0,
                            !.failedAttempts = 0]
           failed == [st EXCEPT !.retryCount = @ + 1, !.failedAttempts = @ + 1,
                                !.cause = cause]
       IN  Commit(s, {r},
             IF o \in {"ok", "whole"}
             THEN IF ok.currentStart <= ok.end
                  THEN Await([ok EXCEPT !.sent = @ + 1], "D_chunk",
                             Req(s, "range", ok.currentStart,
                                 ChunkEnd(ok.currentStart, ok.end)))
                  ELSE ReturnFromDownload(s, ok, Merge(ok.chunks))
             ELSE IF failed.retryCount >= maxRetries
                  THEN Throw(s, failed,
                             <<"Failed to download chunk after 3 retries">> \o cause)
                  ELSE Await(failed, "D_backoff",
                             Req(s, "timer", 1000 * failed.retryCount, 0)))

\* Lines 134-135 and 104-114: the backoff timer fires; the chunk is
\* requested again.
D_backoff(s) ==
  \E r \in inflight :
    /\ Awaited(s, "D_backoff", r)
    /\ LET st == sess[s]
       IN  Commit(s, {r},
             Await([st EXCEPT !.sent = @ + 1], "D_chunk",
                   Req(s, "range", st.currentStart, ChunkEnd(st.currentStart, st.end))))

----------------------------------------------------------------------------
(* processUrl and readPayloadHeader.                                       *)

\* Lines 592-613: the call, up to the request that detects the file type.
ProcessUrl(s, st) ==
  Await([st EXCEPT !.wrap = <<"Failed to fetch">>], "U_detect", Req(s, "range", 0, 3))

\* Seeded fault: every signature other than the ZIP one is taken for a raw
\* payload, as in readPayloadHeader.
U_detectLenient(s) ==
  \E r \in inflight, o \in Outcomes :
    /\ Awaited(s, "U_detect", r)
    /\ Possible(sess[s], r, o)
    /\ LET st == sess[s]
           magicBuffer == Body(st, r)
       IN  Commit(s, {r},
             IF o = "reject" THEN Throw(s, st, FetchRejected)
             ELSE IF o = "http" THEN Throw(s, st, <<"Failed to detect file type">>)
             ELSE IF ~CanRead(magicBuffer, 0, 4) THEN Throw(s, st, RangeError.err)
             ELSE IF B4(magicBuffer, 0) = ZIP_LOCAL_SIG
               THEN CallReadZipPayload(s, st, "U_zip")
             ELSE Await([st EXCEPT !.payloadOffset = 0], "U_header",
                        Req(s, "range", 0, HeaderWindow - 1)))

\* Lines 615-644: format detection.
U_detect(s) ==
  \E r \in inflight, o \in Outcomes :
    /\ Awaited(s, "U_detect", r)
    /\ Possible(sess[s], r, o)
    /\ LET st == sess[s]
           magicBuffer == Body(st, r)
       IN  Commit(s, {r},
             IF o = "reject" THEN Throw(s, st, FetchRejected)
             ELSE IF o = "http" THEN Throw(s, st, <<"Failed to detect file type">>)
             ELSE IF ~CanRead(magicBuffer, 0, 4) THEN Throw(s, st, RangeError.err)
             ELSE IF B4(magicBuffer, 0) = ZIP_LOCAL_SIG
               THEN CallReadZipPayload(s, st, "U_zip")
             ELSE IF B4(magicBuffer, 0) = WORKER_MAGIC
               THEN Await([st EXCEPT !.payloadOffset = 0], "U_header",
                          Req(s, "range", 0, HeaderWindow - 1))
             ELSE Throw(s, st, <<"Unknown file format">>))

\* Lines 646-662 and 414-422: the payload magic at payloadOffset; the call
\* of readPayloadHeader, up to its first request.
U_header(s) ==
  \E r \in inflight, o \in Outcomes :
    /\ Awaited(s, "U_header", r)
    /\ Possible(sess[s], r, o)
    /\ LET st == sess[s]
           headerBuffer == Body(st, r)
       IN  Commit(s, {r},
             IF o = "reject" THEN Throw(s, st, FetchRejected)
             ELSE IF o = "http" THEN Throw(s, st, <<"Failed to read payload header">>)
             ELSE IF ~CanRead(headerBuffer, 0, 4) THEN Throw(s, st, RangeError.err)
             ELSE IF B4(headerBuffer, 0) # WORKER_MAGIC
               THEN Throw(s, st, <<"Invalid payload magic number">>)
             ELSE Await([st EXCEPT !.wrap = <<"Failed to fetch",
                                              "Failed to parse payload header">>],
                        "H_magic", Req(s, "range", 0, 3)))

\* Lines 424-460: readPayloadHeader detects the format again.
H_magic(s) ==
  \E r \in inflight, o \in Outcomes :
    /\ Awaited(s, "H_magic", r)
    /\ Possible(sess[s], r, o)
    /\ LET st == sess[s]
           magicBuffer == Body(st, r)
       IN  Commit(s, {r},
             IF o = "reject" THEN Throw(s, st, FetchRejected)
             ELSE IF o = "http" THEN Throw(s, st, <<"Failed to fetch header">>)
             ELSE IF ~CanRead(magicBuffer, 0, 4) THEN Throw(s, st, RangeError.err)
             ELSE IF B4(magicBuffer, 0) = ZIP_LOCAL_SIG
               THEN CallReadZipPayload(s, st, "H_zip")
             ELSE Await([st EXCEPT !.zipOffset = 0], "H_raw",
                        Req(s, "range", 0, HeaderWindow - 1)))

\* Lines 469-503: the header window is in; the fixed header is checked.
EnterManifest(s, st, payloadBuffer) ==
  LET c == HeaderChecks(payloadBuffer)
  IN  IF ~c.ok THEN Throw(s, st, c.err)
      ELSE Goto([st EXCEPT !.payloadBuffer = payloadBuffer, !.manifestCount = c.val,
                           !.i = 0, !.offset = 20, !.manifest = <<>>],
                "H_entry")

\* Lines 448-452: the header window of a payload inside a ZIP.
H_ziphdr(s) ==
  \E r \in inflight, o \in Outcomes :
    /\ Awaited(s, "H_ziphdr", r)
    /\ Possible(sess[s], r, o)
    /\ LET st == sess[s]
       IN  Commit(s, {r},
             IF o = "reject" THEN Throw(s, st, FetchRejected)
             ELSE IF o = "http" THEN Throw(s, st, <<"Failed to fetch payload header">>)
             ELSE EnterManifest(s, st, Body(st, r)))

\* Lines 462-466: the header window of a raw payload.
H_raw(s) ==
  \E r \in inflight, o \in Outcomes :
    /\ Awaited(s, "H_raw", r)
    /\ Possible(sess[s], r, o)
    /\ LET st == sess[s]
       IN  Commit(s, {r},
             IF o = "reject" THEN Throw(s, st, FetchRejected)
             ELSE IF o = "http" THEN Throw(s, st, <<"Failed to fetch payload">>)
             ELSE EnterManifest(s, st, Body(st, r)))

\* Lines 505-552: one iteration of the manifest loop, or its exit and the
\* return to processUrl (line 662).
H_entry(s) ==
  /\ sess[s].pc = "H_entry"
  /\ LET st == sess[s]
         e == DecodeEntry(st.payloadBuffer, st.zipOffset, st.offset)
     IN  Commit(s, {},
           IF st.i < st.manifestCount /\ st.offset + 4 <= Len(st.payloadBuffer)
           THEN IF ~e.ok THEN Throw(s, st, e.err)
                ELSE Goto([st EXCEPT !.i = @ + 1, !.offset = e.val.offset,
                                     !.manifest = Append(@, e.val.entry)],
                          "H_entry")
           ELSE IF Len(st.manifest) = 0
             THEN Throw(s, st, <<"No valid partitions found in manifest">>)
           ELSE Goto([st EXCEPT !.payloadBuffer = <<>>, !.manifestCount = 0, !.i = 0,
                                !.offset = 0, !.idx = 1,
                                !.wrap = <<"Failed to fetch">>],
                     "P_loop"))

\* self.onmessage line 574, after processUrl or processFile returned.
PostSuccess(s, st) ==
  [st |-> [IdleSession EXCEPT !.pc = "done", !.info = st.info, !.bytes = st.bytes,
                              !.manifest = st.manifest, !.parsed = st.parsed],
   reqs |-> {},
   evs |-> <<Event(s, "success", <<>>, <<>>, <<>>)>>]

ManifestNames(st) == [k \in 1..Len(st.manifest) |-> st.manifest[k].name]

\* Seeded fault: a requested name that is not in the manifest ends the loop
\* (break for continue).
P_loopBreak(s) ==
  /\ sess[s].pc = "P_loop"
  /\ LET st == sess[s]
         k == FindName(ManifestNames(st), st.info.partitions[st.idx])
         partition == st.manifest[k]
     IN  Commit(s, {},
           IF st.idx > Len(st.info.partitions) THEN PostSuccess(s, st)
           ELSE IF k = 0 THEN PostSuccess(s, st)
           ELSE DownloadRange(s, [st EXCEPT !.wrap = <<"Failed to fetch",
                                                       "Failed to process partition">>],
                              partition.offset, partition.offset + partition.size - 1))

\* Lines 666-682: one iteration of the partition loop up to the first request
\* of downloadRange, or the end of the loop.
P_loop(s) ==
  /\ sess[s].pc = "P_loop"
  /\ LET st == sess[s]
         k == FindName(ManifestNames(st), st.info.partitions[st.idx])
         partition == st.manifest[k]
     IN  Commit(s, {},
           IF st.idx > Len(st.info.partitions) THEN PostSuccess(s, st)
           ELSE IF k = 0 THEN Goto([st EXCEPT !.idx = @ + 1], "P_loop")
           ELSE DownloadRange(s, [st EXCEPT !.wrap = <<"Failed to fetch",
                                                       "Failed to process partition">>],
                              partition.offset, partition.offset + partition.size - 1))

----------------------------------------------------------------------------
(* processFile and processPayloadBuffer.                                   *)

\* PayloadParser.parse is a function of the file's bytes alone: its results
\* on the resources.
ParsedFile ==
  [raw |-> Parse(RawResource), zip |-> Parse(ZipResource),
   zip64 |-> Parse(Zip64Resource), unknown |-> Parse(UnknownResource),
   crau |-> Parse(CrauResource), delta |-> Parse(DeltaResource),
   ramp |-> Parse(RampResource), stub |-> Parse(StubResource),
   crauv3 |-> Parse(CrauV3Resource), name0 |-> Parse(NamedResource(0)),
   name257 |-> Parse(NamedResource(257)), cut |-> Parse(CutResource),
   big |-> Parse(BigResource), over |-> Parse(OverResource),
   dup |-> Parse(DupResource), dupfile |-> Parse(DupFileResource), bsdiff |-> Parse(UnsupportedResource(BSDIFF)),
   optype9 |-> Parse(UnsupportedResource(9))]

\* Lines 586-588: the call, up to File.arrayBuffer().
ProcessFile(s, st) == Await(st, "F_read", Req(s, "file", 0, 0))

\* Lines 588-589 and 718-722: the file is read; PayloadParser.parse.
F_read(s) ==
  \E r \in inflight, o \in Outcomes :
    /\ Awaited(s, "F_read", r)
    /\ o # "http"
    /\ LET st == sess[s]
           p == ParsedFile[st.info.source]
       IN  Commit(s, {r},
             IF o = "reject" THEN Throw(s, st, <<"NotReadableError">>)
             ELSE IF ~p.ok THEN Throw(s, st, p.err)
             ELSE Goto([st EXCEPT !.parsed = p.val, !.idx = 1,
                                  !.wrap = <<"Failed to extract partition">>],
                       "B_loop"))

\* Lines 724-743: one iteration of the loop of processPayloadBuffer, or its end.
B_loop(s) ==
  /\ sess[s].pc = "B_loop"
  /\ LET st == sess[s]
         partitionName == st.info.partitions[st.idx]
         blob == ExtractPartition(Resource(st), st.parsed, partitionName)
     IN  Commit(s, {},
           IF st.idx > Len(st.info.partitions) THEN PostSuccess(s, st)
           ELSE IF ~blob.ok THEN Throw(s, st, blob.err)
           ELSE [st |-> [st EXCEPT !.idx = @ + 1],
                 reqs |-> {},
                 evs |-> <<Event(s, "progress", partitionName, blob.val, <<>>)>>])

----------------------------------------------------------------------------
(* self.onmessage and the specifications.                                  *)

Names == {N_boot, N_system, N_doesnotexist}

\* The requested partition lists of at most n names.
PartitionLists(n) == UNION {[1..k -> Names] : k \in 0..n}

Sources == {"raw", "zip", "zip64", "unknown", "crau", "delta"}

Requests == [type : {"file", "url"}, source : Sources, partitions : PartitionLists(MaxParts)]

\* Lines 560-571: a 'process' message arrives; the handler runs up to its
\* first await.  Messages are taken by the sessions in order.
Receive(s, info) ==
  /\ sess[s].pc = "idle"
  /\ IF s = 1 THEN TRUE ELSE sess[s - 1].pc # "idle"
  /\ LET st == [sess[s] EXCEPT !.info = info, !.bytes = Resources[info.source]]
     IN  Commit(s, {},
           IF info.type = "file" THEN ProcessFile(s, st) ELSE ProcessUrl(s, st))

\* A processPayload call that has not been made.
NoCall ==
  [state |-> "none", info |-> NoInfo, attached |-> 0, posted |-> 0,
   listening |-> FALSE, removedFrom |-> 0]

\* PayloadHandler after its constructor: worker is null (0) and the import
\* started by initializeWorker is pending.
NewHandler ==
  [worker |-> 0, constructed |-> 0, imports |-> 1,
   calls |-> [c \in Sessions |-> NoCall], delivered |-> {}, onProgress |-> 0]

Init ==
  /\ sess = [s \in Sessions |-> IdleSession]
  /\ inflight = {}
  /\ events = <<>>
  /\ main = NewHandler

\* One worker, one 'process' message drawn from Requests.
Next ==
  \/ \E info \in Requests : Receive(1, info)
  \/ U_detect(1)
  \/ Z_head(1)
  \/ Z_tail(1)
  \/ Z_zip64(1)
  \/ Z_cd(1)
  \/ Z_scan(1)
  \/ Z_extra(1)
  \/ Z_local(1)
  \/ Z_magic(1)
  \/ U_header(1)
  \/ H_magic(1)
  \/ H_ziphdr(1)
  \/ H_raw(1)
  \/ H_entry(1)
  \/ P_loop(1)
  \/ D_single(1)
  \/ D_chunk(1)
  \/ D_backoff(1)
  \/ F_read(1)
  \/ B_loop(1)

Spec == Init /\ [][Next]_vars

----------------------------------------------------------------------------
(* Stand-alone calls of downloadRange on the ramp and stub resources.      *)

CallInfo == [type |-> "call", source |-> "ramp", partitions |-> <<>>]

InitDL ==
  /\ \E a \in (-1)..MaxPos, b \in 0..MaxPos, src \in {"ramp", "stub"} :
       sess = [s \in Sessions |->
                 IF s = 1
                 THEN [IdleSession EXCEPT !.pc = "D_call",
                                          !.info = [CallInfo EXCEPT !.source = src],
                                         !.bytes = Resources[src],
                                          !.start = a, !.end = b]
                 ELSE IdleSession]
  /\ inflight = {}
  /\ events = <<>>
  /\ main = NewHandler

\* Line 66: downloadRange(url, start, end) is called.
D_call(s) ==
  /\ sess[s].pc = "D_call"
  /\ Commit(s, {}, DownloadRange(s, sess[s], sess[s].start, sess[s].end))

NextDL == D_call(1) \/ D_single(1) \/ D_chunk(1) \/ D_backoff(1)

SpecDL == InitDL /\ [][NextDL]_vars

\* The same calls under the assumption that every request is eventually
\* answered and every timer fires.
SpecDLLive == SpecDL /\ WF_vars(NextDL)

\* The same worker under the assumption that every request is eventually
\* answered and every runnable continuation eventually runs.
SpecLive == Spec /\ WF_vars(Next)

----------------------------------------------------------------------------
(* URL sessions on ZIP archives.                                           *)

ZipSources == {"zip", "zip64", "multi", "none", "nolocator", "sig", "twin"}

ZipRequests == [type : {"url"}, source : ZipSources, partitions : PartitionLists(BusyParts)]

NextZip ==
  \/ \E info \in ZipRequests : Receive(1, info)
  \/ U_detect(1)
  \/ Z_head(1)
  \/ Z_tail(1)
  \/ Z_zip64(1)
  \/ Z_cd(1)
  \/ Z_scan(1)
  \/ Z_extra(1)
  \/ Z_local(1)
  \/ Z_magic(1)
  \/ U_header(1)
  \/ H_magic(1)
  \/ H_ziphdr(1)
  \/ H_entry(1)
  \/ P_loop(1)
  \/ D_single(1)
  \/ D_chunk(1)
  \/ D_backoff(1)

SpecZip == Init /\ [][NextZip]_vars

----------------------------------------------------------------------------
(* Sessions on payloads, raw and local: the header, the manifest and the   *)
(* operations of a partition.                                              *)

HeaderSources ==
  {"raw", "name0", "name257", "cut", "big", "over", "dup", "crau", "crauv3", "delta",
   "bsdiff", "optype9", "dupfile"}

HeaderRequests ==
  [type : {"file", "url"}, source : HeaderSources, partitions : PartitionLists(MaxParts)]

NextHeader ==
  \/ \E info \in HeaderRequests : Receive(1, info)
  \/ U_detect(1)
  \/ U_header(1)
  \/ H_magic(1)
  \/ H_raw(1)
  \/ H_entry(1)
  \/ P_loop(1)
  \/ D_single(1)
  \/ D_chunk(1)
  \/ D_backoff(1)
  \/ F_read(1)
  \/ B_loop(1)

SpecHeader == Init /\ [][NextHeader]_vars

----------------------------------------------------------------------------
(* One worker that receives up to MaxSessions 'process' messages; nothing  *)
(* in self.onmessage makes a message wait for the session before it.       *)

BusySources == {"raw", "zip", "crau"}

BusyRequests ==
  [type : {"file", "url"}, source : BusySources, partitions : PartitionLists(BusyParts)]

NextBusy ==
  \/ \E s \in Sessions, info \in BusyRequests : Receive(s, info)
  \/ \E s \in Sessions : U_detect(s)
  \/ \E s \in Sessions : Z_head(s)
  \/ \E s \in Sessions : Z_tail(s)
  \/ \E s \in Sessions : Z_cd(s)
  \/ \E s \in Sessions : Z_scan(s)
  \/ \E s \in Sessions : Z_local(s)
  \/ \E s \in Sessions : Z_magic(s)
  \/ \E s \in Sessions : U_header(s)
  \/ \E s \in Sessions : H_magic(s)
  \/ \E s \in Sessions : H_ziphdr(s)
  \/ \E s \in Sessions : H_raw(s)
  \/ \E s \in Sessions : H_entry(s)
  \/ \E s \in Sessions : P_loop(s)
  \/ \E s \in Sessions : D_single(s)
  \/ \E s \in Sessions : D_chunk(s)
  \/ \E s \in Sessions : D_backoff(s)
  \/ \E s \in Sessions : F_read(s)
  \/ \E s \in Sessions : B_loop(s)

SpecBusy == Init /\ [][NextBusy]_vars

----------------------------------------------------------------------------
(* PayloadHandler, on the main thread.  Call c of processPayload is served  *)
(* by session c of the worker its message was posted to.                    *)

\* initializeWorker, the import resolved: new WorkerModule.default() is
\* assigned to this.worker.
ModuleLoaded ==
  /\ main.imports > 0
  /\ main' = [main EXCEPT !.imports = @ - 1, !.constructed = @ + 1,
                          !.worker = main.constructed + 1]
  /\ UNCHANGED <<sess, inflight, events>>

\* initializeWorker, the import rejected: the catch logs the error and
\* initializeWorker returns normally.
ModuleFailed ==
  /\ main.imports > 0
  /\ main' = [main EXCEPT !.imports = @ - 1]
  /\ UNCHANGED <<sess, inflight, events>>

\* waitForWorker with this.worker set: handleMessage is added to the worker
\* and the 'process' message is posted to it.
Listening(info) ==
  [state |-> "pending", info |-> info, attached |-> main.worker, posted |-> main.worker,
   listening |-> TRUE, removedFrom |-> 0]

\* processPayload(info): the promise executor, up to its return.
ProcessPayload(c, info) ==
  /\ main.calls[c].state = "none"
  /\ IF c = 1 THEN TRUE ELSE main.calls[c - 1].state # "none"
  /\ main' = IF main.worker # 0
             THEN [main EXCEPT !.calls[c] = Listening(info)]
             ELSE [main EXCEPT !.imports = @ + 1,
                               !.calls[c] = [NoCall EXCEPT !.state = "waiting",
                                                           !.info = info]]
  /\ UNCHANGED <<sess, inflight, events>>

\* The timer of waitForWorker fires: the worker is there, or the timer is
\* set again.
WaitForWorker(c) ==
  /\ main.calls[c].state = "waiting"
  /\ main' = IF main.worker # 0
             THEN [main EXCEPT !.calls[c] = Listening(main.calls[c].info)]
             ELSE main
  /\ UNCHANGED <<sess, inflight, events>>

\* The posted message of call c reaches self.onmessage of its worker.
OnMessage(c) ==
  /\ main.calls[c].posted # 0
  /\ sess[c].pc = "idle"
  /\ LET info == main.calls[c].info
         st == [sess[c] EXCEPT !.info = info, !.bytes = Resources[info.source]]
     IN  Commit(c, {}, IF info.type = "file" THEN ProcessFile(c, st) ELSE ProcessUrl(c, st))

\* handleMessage of a call, run on message e: the call afterwards.  A
\* settled promise stays as it is.
HandleMessage(call, e) ==
  IF e.type = "success"
  THEN [call EXCEPT !.state = IF @ = "pending" THEN "resolved" ELSE @,
                    !.removedFrom = main.worker,
                    !.listening = (main.worker # call.attached)]
  ELSE IF e.type = "error"
  THEN [call EXCEPT !.state = IF @ = "pending" THEN "rejected" ELSE @,
                    !.removedFrom = main.worker,
                    !.listening = (main.worker # call.attached)]
  ELSE call

\* The message event of events[k] is dispatched on the main thread, after
\* the earlier messages of the same worker: every handleMessage that is
\* registered on that worker runs.
Dispatch(k) ==
  /\ k \in (1..Len(events)) \ main.delivered
  /\ LET w == main.calls[events[k].sid].posted
         heard == {c \in Sessions : main.calls[c].listening /\ main.calls[c].attached = w}
     IN  /\ \A j \in 1..(k - 1) : main.calls[events[j].sid].posted = w => j \in main.delivered
         /\ main' = [main EXCEPT
                       !.delivered = @ \cup {k},
                       !.calls = [c \in Sessions |->
                                    IF c \in heard THEN HandleMessage(main.calls[c], events[k])
                                    ELSE main.calls[c]],
                       !.onProgress = @ + (IF events[k].type = "progress"
                                           THEN Cardinality(heard) ELSE 0)]
  /\ UNCHANGED <<sess, inflight, events>>

HandlerRequests ==
  [type : {"file"}, source : {"crau"}, partitions : PartitionLists(BusyParts)]

NextHandler ==
  \/ \E c \in Sessions, info \in HandlerRequests : ProcessPayload(c, info)
  \/ \E c \in Sessions : WaitForWorker(c)
  \/ ModuleLoaded
  \/ ModuleFailed
  \/ \E c \in Sessions : OnMessage(c)
  \/ \E k \in 1..(MaxSessions * (BusyParts + 1)) : Dispatch(k)
  \/ \E s \in Sessions : F_read(s)
  \/ \E s \in Sessions : B_loop(s)

SpecHandler == Init /\ [][NextHandler]_vars

\* The handler and its workers under the assumption that every import
\* settles, every timer fires, every posted message is delivered and every
\* runnable continuation of the worker runs.  Whether processPayload is
\* called is up to the page.
SpecHandlerLive ==
  /\ SpecHandler
  /\ WF_vars(ModuleLoaded \/ ModuleFailed)
  /\ \A c \in Sessions :
       /\ WF_vars(WaitForWorker(c))
       /\ WF_vars(OnMessage(c))
       /\ WF_vars(F_read(c))
       /\ WF_vars(B_loop(c))
  /\ WF_vars(\E k \in 1..(MaxSessions * (BusyParts + 1)) : Dispatch(k))

----------------------------------------------------------------------------
(* Properties of a session's messages.                                     *)

\* The messages session s has posted, oldest first.
EventsOf(s) == SelectSeq(events, LAMBDA e : e.sid = s)

Terminal(e) == e.type \in {"success", "error"}

\* The partition names of the progress messages of session s, in order.
ProgressNames(s) ==
  LET ev == SelectSeq(EventsOf(s), LAMBDA e : e.type = "progress")
  IN  [k \in 1..Len(ev) |-> ev[k].partition]

\* The partition names of the manifest session s has parsed.
PresentNames(s) ==
  IF sess[s].info.type = "file"
  THEN [k \in 1..Len(sess[s].parsed.partitions) |->
          sess[s].parsed.partitions[k].partitionName]
  ELSE ManifestNames(sess[s])

\* The requested names that are in the manifest, in request order.
RequestedPresent(s) ==
  SelectSeq(sess[s].info.partitions,
            LAMBDA n : \E k \in 1..Len(PresentNames(s)) : PresentNames(s)[k] = n)

IsPrefix(p, q) == Len(p) <= Len(q) /\ SubSeq(q, 1, Len(p)) = p

\* C1: the messages of a session are zero or more progress messages followed
\* by one terminal message (success or error): a terminal message is always
\* the last message of its session, so there are never two of them and no
\* progress message follows one; a session has ended exactly when its last
\* message is terminal, and a session that has not started has posted nothing.
C1_ProgressThenOneTerminal ==
  \A s \in Sessions :
    LET ev == EventsOf(s)
    IN  /\ \A k \in 1..Len(ev) : Terminal(ev[k]) => k = Len(ev)
        /\ sess[s].pc = "done" <=> (Len(ev) > 0 /\ Terminal(ev[Len(ev)]))
        /\ sess[s].pc = "idle" => ev = <<>>

\* A session that posted two progress messages and then its terminal message.
C1_Witness ==
  \E s \in Sessions :
    /\ sess[s].pc = "done"
    /\ Len(EventsOf(s)) = 3
    /\ EventsOf(s)[1].type = "progress"
    /\ EventsOf(s)[2].type = "progress"
    /\ EventsOf(s)[3].type = "success"

\* C2: a requested name that is absent from the manifest is skipped, for a
\* local file as for a URL: no session ends with an error raised because a
\* requested name was not found, and no progress message carries an absent name.
C2_AbsentNameSkipped ==
  /\ \A k \in 1..Len(events) :
       events[k].type = "error" =>
         \A j \in 1..Len(events[k].error) : events[k].error[j] # "Partition not found"
  /\ \A s \in Sessions :
       \A k \in 1..Len(ProgressNames(s)) : ProgressNames(s)[k] # N_doesnotexist

\* C3: after a fatal error the session posts exactly one error message and
\* nothing after it, never a success message; no request of the session is
\* left in flight and no step of it remains; the progress messages before
\* the error are those of the requested, present names in order up to the
\* failure, and messages once posted stay posted.
C3_Inv ==
  \A s \in Sessions :
    LET ev == EventsOf(s)
    IN  (\E k \in 1..Len(ev) : ev[k].type = "error") =>
          /\ ev[Len(ev)].type = "error"
          /\ \A k \in 1..(Len(ev) - 1) : ev[k].type = "progress"
          /\ sess[s].pc = "done"
          /\ \A r \in inflight : r.sid # s
          /\ IsPrefix(ProgressNames(s), RequestedPresent(s))

C3_FatalErrorEndsSession == [](C3_Inv) /\ [][IsPrefix(events, events')]_vars

\* A session whose second requested partition failed after the first was
\* delivered.
C3_Witness ==
  \E s \in Sessions :
    /\ sess[s].pc = "done"
    /\ sess[s].info.partitions = <<N_system, N_boot>>
    /\ Len(EventsOf(s)) = 2
    /\ EventsOf(s)[1].type = "progress"
    /\ EventsOf(s)[2].type = "error"
    /\ EventsOf(s)[2].error[2] = "Failed to process partition"

\* C4: in a session that ends with success the progress messages name exactly
\* the requested names that are in the manifest, in request order, one
\* message per requested occurrence; and no progress message ever names a
\* partition that was not requested.
C4_RequestOrder ==
  \A s \in Sessions :
    LET ev == EventsOf(s)
    IN  /\ (Len(ev) > 0 /\ ev[Len(ev)].type = "success") =>
             ProgressNames(s) = RequestedPresent(s)
        /\ \A k \in 1..Len(ProgressNames(s)) :
             \E j \in 1..Len(sess[s].info.partitions) :
               sess[s].info.partitions[j] = ProgressNames(s)[k]

\* A successful URL session that asked for system and then boot, the reverse
\* of their order in the manifest, and delivered them in the order requested.
C4_Witness ==
  \E s \in Sessions :
    /\ sess[s].info.type = "url"
    /\ sess[s].info.partitions = <<N_system, N_boot>>
    /\ Len(EventsOf(s)) = 3
    /\ EventsOf(s)[3].type = "success"
    /\ ProgressNames(s) = <<N_system, N_boot>>

\* C5: under SpecLive every session that has started eventually posts its
\* terminal message: the central directory scan, the ZIP64 extra-field scan,
\* the manifest loop and the chunk retry loop all come to an end.
C5_EverySessionEnds ==
  \A s \in Sessions :
    (sess[s].pc # "idle") ~>
      (Len(EventsOf(s)) > 0 /\ Terminal(EventsOf(s)[Len(EventsOf(s))]))

\* A session on the ZIP64 archive that went through every loop and ended with
\* success after delivering boot in more than one chunk.
C5_Witness ==
  \E s \in Sessions :
    /\ sess[s].info.source = "zip64"
    /\ sess[s].info.partitions = <<N_boot>>
    /\ Len(EventsOf(s)) = 2
    /\ EventsOf(s)[1].type = "progress"
    /\ Len(EventsOf(s)[1].data) > MaxChunkSize
    /\ EventsOf(s)[2].type = "success"

----------------------------------------------------------------------------
(* Properties of the worker as a whole.                                    *)

\* Session s has started and has not posted its terminal message.
Running(s) == sess[s].pc \notin {"idle", "done"}

\* C6: the worker runs one session at a time: no two sessions are running
\* together, and the messages of one session are never interleaved with the
\* messages of another.
C6_OneSessionAtATime ==
  /\ \A s, t \in Sessions : s # t => ~(Running(s) /\ Running(t))
  /\ \A i, j, k \in 1..Len(events) :
       (i < j /\ j < k /\ events[i].sid = events[k].sid) => events[j].sid = events[i].sid

\* C7: a stream the URL pipeline accepts (it located the payload and parsed
\* its manifest) is not rejected for its format when the same bytes are
\* supplied as a local file.
C7_SameContainerHandling ==
  \A s, t \in Sessions :
    ( /\ sess[s].info.type = "url"
      /\ sess[t].info.type = "file"
      /\ sess[s].info.source = sess[t].info.source
      /\ Len(sess[s].manifest) > 0 )
    => ~(sess[t].pc = "done" /\ sess[t].err = <<"Invalid payload magic">>)

----------------------------------------------------------------------------
(* Properties of downloadRange.                                            *)

InDownload(st) == st.pc \in {"D_single", "D_chunk", "D_backoff", "returned"}

\* The first position of [start, end] that no answered sub-request covers.
NextUncovered(st) ==
  IF st.okReqs = <<>> THEN st.start ELSE st.okReqs[Len(st.okReqs)][2] + 1

\* C8: the sub-requests of a call are issued one after another, each covers
\* between 1 and MaxChunkSize bytes, and the answered ones partition
\* [start, end] from left to right without gap or overlap; a range of at
\* most MaxChunkSize bytes takes exactly one, a range of MaxChunkSize + 1
\* bytes exactly two.
C8_SequentialPartition ==
  \A s \in Sessions :
    LET st == sess[s]
        q == st.okReqs
        n == Len(q)
        len == st.end - st.start + 1
    IN  InDownload(st) =>
          /\ Cardinality({r \in inflight : r.sid = s}) <= 1
          /\ \A r \in inflight :
               (r.sid = s /\ r.op = "range") =>
                 /\ r.a = NextUncovered(st)
                 /\ r.b <= st.end
                 /\ r.b - r.a + 1 \in 1..MaxChunkSize
          /\ \A k \in 1..n :
               /\ q[k][2] - q[k][1] + 1 \in 1..MaxChunkSize
               /\ q[k][1] = IF k = 1 THEN st.start ELSE q[k - 1][2] + 1
          /\ st.pc = "returned" =>
               /\ n >= 1
               /\ q[n][2] = st.end
               /\ len <= MaxChunkSize => n = 1
               /\ len = MaxChunkSize + 1 => n = 2

\* A call for MaxChunkSize + 1 bytes that returned after two sub-requests.
C8_Witness ==
  \E s \in Sessions :
    /\ sess[s].pc = "returned"
    /\ sess[s].end - sess[s].start + 1 = MaxChunkSize + 1
    /\ Len(sess[s].okReqs) = 2

\* Every answered sub-request carried exactly the bytes of its range.
Exact(st) ==
  \A k \in 1..Len(st.okReqs) :
    st.okReqs[k][3] = st.okReqs[k][2] - st.okReqs[k][1] + 1

\* C9: when every answered sub-request carried exactly the bytes of its
\* range, a call that returns yields the end - start + 1 bytes of the
\* resource from start to end, in order, whatever attempts failed on the way.
C9_ExactBytes ==
  \A s \in Sessions :
    LET st == sess[s]
    IN  (st.pc = "returned" /\ Exact(st)) =>
          /\ Len(st.result) = st.end - st.start + 1
          /\ st.result = [k \in 1..(st.end - st.start + 1) |->
                            Resource(st)[st.start + k]]

\* A call that returned its bytes from three chunks after a failed attempt.
C9_Witness ==
  \E s \in Sessions :
    /\ sess[s].pc = "returned"
    /\ Exact(sess[s])
    /\ Len(sess[s].okReqs) = 3
    /\ sess[s].cause # <<>>

\* C10: a call fails only after maxRetries consecutive failed attempts of
\* one sub-request, the single-request path included, and its error ends
\* with the message of the last failed attempt.
C10_RetriedUpToBudget ==
  \A s \in Sessions :
    LET st == sess[s]
    IN  (st.pc = "thrown" /\ st.err # <<"Invalid range">>) =>
          /\ st.failedAttempts = maxRetries
          /\ SubSeq(st.err, Len(st.err) - Len(st.cause) + 1, Len(st.err)) = st.cause

\* C11: a response whose length differs from the length of its range is
\* never accepted without being flagged, also as one chunk of several: when
\* a call returns after such a response, the check of its caller (lines
\* 685-690, partitionData.byteLength !== partition.size, where partition.size
\* is end - start + 1 by line 682) raises the warning.
C11_MismatchAlwaysFlagged ==
  \A s \in Sessions :
    LET st == sess[s]
    IN  (st.pc = "returned" /\ ~Exact(st)) =>
          Len(st.result) # st.end - st.start + 1

----------------------------------------------------------------------------
(* Properties of format detection and of the ZIP locator.                  *)

\* The first four bytes of the source of session s.
Magic(s) == B4(Resource(sess[s]), 0)

\* The step of session s that consumes the response to the detection request.
C12_Step(s) ==
  LET st == sess'[s]
      mine == {r \in inflight' : r.sid = s}
  IN  (sess[s].pc = "U_detect" /\ st.pc # "U_detect") =>
        /\ st.pc \in {"Z_head", "U_header", "done"}
        /\ st.pc = "Z_head" =>
             Magic(s) = ZIP_LOCAL_SIG /\ mine = {Req(s, "head", 0, 0)}
        /\ st.pc = "U_header" =>
             /\ Magic(s) = WORKER_MAGIC
             /\ st.payloadOffset = 0
             /\ mine = {Req(s, "range", 0, HeaderWindow - 1)}
        /\ st.err = <<"Failed to fetch", "Unknown file format">> =>
             Magic(s) \notin {ZIP_LOCAL_SIG, WORKER_MAGIC}
        /\ Magic(s) \notin {ZIP_LOCAL_SIG, WORKER_MAGIC} =>
             /\ st.pc = "done"
             /\ st.err \in {<<"Failed to fetch", "Unknown file format">>,
                            <<"Failed to fetch", "Failed to detect file type">>,
                            <<"Failed to fetch">> \o FetchRejected}
        /\ st.pc = "done" =>
             mine = {} /\ events' = Append(events, Event(s, "error", <<>>, <<>>, st.err))

\* C12: in a URL session the first four bytes select the handling: the ZIP
\* local-file signature starts readZipPayload, the payload magic starts the
\* header request at body offset 0, and any other value ends the session with
\* the unknown-format error; such a session never has any request in flight
\* but the detection request for bytes 0-3.
C12_FormatDetection ==
  /\ [][\A s \in Sessions : C12_Step(s)]_vars
  /\ [](\A s \in Sessions :
          (sess[s].info.type = "url" /\ Magic(s) \notin {ZIP_LOCAL_SIG, WORKER_MAGIC}) =>
            /\ sess[s].pc \in {"U_detect", "done"}
            /\ \A r \in inflight : r.sid = s => r = Req(s, "range", 0, 3))

\* A URL session on a source that is neither a ZIP nor a payload, ended by the
\* unknown-format error as its only message.
C12_Witness ==
  \E s \in Sessions :
    /\ sess[s].info.type = "url"
    /\ sess[s].info.source = "unknown"
    /\ sess[s].pc = "done"
    /\ EventsOf(s) = <<Event(s, "error", <<>>, <<>>,
                             <<"Failed to fetch", "Unknown file format">>)>>


\* The offset readZipPayload hands back in the step that leaves it.
Returned(s) ==
  IF sess'[s].pc = "U_header" THEN sess'[s].payloadOffset ELSE sess'[s].zipOffset

\* The step of session s in which readZipPayload returns.
C13_Step(s) ==
  LET st == sess[s]
      cd == st.cdBuffer
      file == Resource(st)
      lho == st.localHeaderOffset
  IN  (st.pc = "Z_magic" /\ sess'[s].pc \in {"U_header", "H_ziphdr"}) =>
        /\ B4(cd, st.offset) = ZIP_CD_SIG
        /\ IsPayloadFile(FileName(st))
        /\ CompressionMethod(st) = 0
        /\ B4(cd, st.offset + 42) # SENTINEL32 => lho = U32(cd, st.offset + 42)
        /\ B4(file, lho) = ZIP_LOCAL_SIG
        /\ Returned(s) = lho + 30 + U16(file, lho + 26) + U16(file, lho + 28)
        /\ B4(file, Returned(s)) = WORKER_MAGIC
        /\ st.info.source \in {"zip", "zip64"} =>
             /\ lho = 0
             /\ Returned(s) = Len(ZipLocalHeader(FN_payload, <<>>, 0, Len(RawResource)))
        /\ Slice(file, Returned(s), Returned(s) + Len(RawResource)) = RawResource

\* C13: whenever readZipPayload returns an offset, it is localHeaderOffset +
\* 30 + filenameLength + extraFieldLength, the two lengths read from the local
\* file header, of a central directory record whose name matched a candidate,
\* whose compression method is 0 and whose four bytes at that offset are the
\* payload magic; for the archive of one stored payload.bin it is the offset
\* of the entry's data.
C13_ReturnedOffset == [][\A s \in Sessions : C13_Step(s)]_vars

\* readZipPayload has returned the data offset of OTA/payload.bin, the fifth
\* record of the archive of several entries, whose local header carries an
\* extra field.
C13_Witness ==
  /\ MultiResource = MultiArchive
  /\ \E s \in Sessions :
       /\ sess[s].pc = "U_header"
       /\ sess[s].info.source = "multi"
       /\ sess[s].payloadOffset = MultiOtaAt + Len(MultiOtaHeader)
       /\ U16(MultiResource, MultiOtaAt + 28) > 0


\* C19: a candidate that fails validation (compressed, local header
\* unreadable or of a wrong signature, bytes at the data offset not the payload
\* magic) never aborts the search: the step that settles a candidate goes on
\* to the next record, to the check of the payload magic, or returns; and
\* readZipPayload fails only at the end of the central directory, with the
\* container-not-found error.
C19_FailingCandidateSkipped ==
  [][\A s \in Sessions :
       /\ (sess[s].pc \in {"Z_local", "Z_magic"} /\ sess'[s].pc # sess[s].pc) =>
            sess'[s].pc \in {"Z_scan", "Z_magic", "U_header", "H_ziphdr"}
       /\ (sess[s].pc \in {"Z_scan", "Z_extra", "Z_local", "Z_magic"}
             /\ sess'[s].pc = "done") =>
            /\ sess[s].pc = "Z_scan"
            /\ \E i \in 1..Len(sess'[s].err) :
                 SubSeq(sess'[s].err, i, Len(sess'[s].err)) = NoPayloadFound]_vars


\* The EOCD record found in the tail of the source of session s carries a
\* ZIP64 sentinel (lines 212-217).
SentinelEocd(s) ==
  LET file == Resource(sess[s])
      at == FindEocd(file, Len(file) - 22).eocdOffset
  IN  /\ at >= 0
      /\ B4(file, at) = ZIP_EOCD_SIG
      /\ \/ U16(file, at + 10) = 65535
         \/ B4(file, at + 12) = SENTINEL32
         \/ B4(file, at + 16) = SENTINEL32

\* C20: when the EOCD carries a ZIP64 sentinel, the central directory is
\* requested with the 64-bit size and offset of the ZIP64 EOCD record that
\* the locator 20 bytes before the EOCD points at; the sentinel values are
\* never the range of the request.
C20_Zip64Range ==
  \A s \in Sessions :
    (sess[s].pc = "Z_cd" /\ SentinelEocd(s)) =>
      LET file == Resource(sess[s])
          at == FindEocd(file, Len(file) - 22).eocdOffset
          rec == U64(file, at - 20 + 8)
      IN  /\ at >= 20
          /\ B4(file, at - 20) = ZIP64_LOC_SIG
          /\ B4(file, rec) = ZIP64_EOCD_SIG
          /\ \A r \in inflight :
               r.sid = s =>
                 /\ r = Req(s, "range", U64(file, rec + 48),
                            U64(file, rec + 48) + U64(file, rec + 40) - 1)
                 /\ r.a # Huge


----------------------------------------------------------------------------
(* Properties of header parsing and of the extraction of a local file.     *)

\* The fixed header at the start of the source of session s holds a payload
\* magic (the worker's or PayloadParser's) and 2 in its version field.
ValidHeader(s) ==
  LET file == Resource(sess[s])
  IN  /\ Len(file) >= 8
      /\ B4(file, 0) \in {WORKER_MAGIC, PAYLOAD_MAGIC}
      /\ B4(file, 4) = LE32(PAYLOAD_VERSION)

\* C14: for every kind of source, header parsing yields a manifest only if
\* the magic is the payload magic and the version field is 2; a wrong magic,
\* a wrong version or a window too short for the fixed header ends the
\* session with an error and no progress message.
C14_MagicAndVersion ==
  \A s \in Sessions :
    /\ (sess[s].manifest # <<>> \/ sess[s].parsed.partitions # <<>>) => ValidHeader(s)
    /\ (sess[s].info.type # "none" /\ ~ValidHeader(s)) =>
         /\ ProgressNames(s) = <<>>
         /\ sess[s].pc = "done" =>
              Len(EventsOf(s)) = 1 /\ EventsOf(s)[1].type = "error"


\* The entries a raw payload declares: n entries laid out from byte off on,
\* each a name length, the name, the size, the offset and 8 more bytes.
RECURSIVE DeclaredEntries(_, _, _)
DeclaredEntries(file, off, n) ==
  IF n = 0 THEN <<>>
  ELSE LET len == U32(file, off)
       IN  <<[name |-> Decode(Slice(file, off + 4, off + 4 + len)),
              size |-> U64(file, off + 4 + len),
              offset |-> U64(file, off + 12 + len)]>>
             \o DeclaredEntries(file, off + 28 + len, n - 1)

\* n entries with names of 1 to 256 bytes and sizes of at least 1 lie in the
\* file from byte off on.
RECURSIVE WellFormedEntries(_, _, _)
WellFormedEntries(file, off, n) ==
  \/ n = 0
  \/ /\ CanRead(file, off, 4)
     /\ U32(file, off) \in 1..256
     /\ CanRead(file, off + 4, U32(file, off) + 24)
     /\ U64(file, off + 4 + U32(file, off)) >= 1
     /\ WellFormedEntries(file, off + 28 + U32(file, off), n - 1)

\* The source of session s is a well-formed raw payload: the fixed header
\* with a header size inside the file, and 1 to 100 well-formed entries.
WellFormedRaw(s) ==
  LET file == Resource(sess[s])
  IN  /\ ValidHeader(s)
      /\ B4(file, 0) = WORKER_MAGIC
      /\ Len(file) >= 20
      /\ U64(file, 8) \in 1..Len(file)
      /\ U32(file, 16) \in 1..100
      /\ WellFormedEntries(file, 20, U32(file, 16))

\* C15: for every well-formed raw payload that declares N entries, 1 <= N <=
\* 100, with names of 1 to 256 bytes, readPayloadHeader succeeds (it throws
\* only when one of its requests fails) and returns exactly the N declared
\* entries, in order; never fewer than declared.
C15_AllEntriesReturned ==
  \A s \in Sessions :
    (sess[s].info.type = "url" /\ WellFormedRaw(s)) =>
      LET st == sess[s]
          file == Resource(st)
      IN  /\ (st.pc = "done"
                /\ IsPrefix(<<"Failed to fetch", "Failed to parse payload header">>, st.err)) =>
               SubSeq(st.err, 3, Len(st.err))
                 \in {<<"Failed to fetch header">>, <<"Failed to fetch payload">>,
                      FetchRejected}
          /\ st.pc \in {"P_loop", "D_single", "D_chunk", "D_backoff"} =>
               st.manifest = DeclaredEntries(file, 20, U32(file, 16))


NameLengthError ==
  <<"Failed to fetch", "Failed to parse payload header", "Invalid name length">>

\* The step of session s that decodes one entry of the manifest.
C16_Step(s) ==
  LET st == sess[s]
      entered == /\ st.pc = "H_entry"
                 /\ st.i < st.manifestCount
                 /\ st.offset + 4 <= Len(st.payloadBuffer)
                 /\ sess'[s] # st
      nameLength == U32(st.payloadBuffer, st.offset)
  IN  /\ (entered /\ nameLength \notin 1..256) =>
           /\ sess'[s].pc = "done"
           /\ sess'[s].err = NameLengthError
           /\ events' = Append(events, Event(s, "error", <<>>, <<>>, NameLengthError))
           /\ ProgressNames(s) = <<>>
           /\ \A r \in inflight' : r.sid # s
      /\ (st.pc # "done" /\ sess'[s].pc = "done" /\ sess'[s].err = NameLengthError) =>
           (entered /\ nameLength \notin 1..256)

\* C16: an entry with name length 0 or above 256 makes readPayloadHeader fail
\* with the name-length error, and the session ends with that one error
\* message, without any partition request or progress message; the
\* name-length error is raised only for a length outside 1..256.
C16_NameLength == [][\A s \in Sessions : C16_Step(s)]_vars


\* The bytes the operations ops stand for over body: the referenced bytes of
\* a REPLACE, a run of zeros for a ZERO.
RECURSIVE Concatenation(_, _)
Concatenation(body, ops) ==
  IF ops = <<>> THEN <<>>
  ELSE (IF Head(ops).type = REPLACE
        THEN SubSeq(body, Head(ops).dataOffset + 1,
                    Head(ops).dataOffset + Head(ops).dataLength)
        ELSE [i \in 1..Head(ops).dataLength |-> 0])
         \o Concatenation(body, Tail(ops))

\* The operations of partition name in the manifest session s has parsed.
OperationsOf(s, name) ==
  LET ps == sess[s].parsed.partitions
  IN  ps[CHOOSE k \in 1..Len(ps) : ps[k].partitionName = name].operations

\* C17: extractPartition over a partition whose operations are all REPLACE or
\* ZERO returns, in operation order, the body bytes of each REPLACE and a run
\* of zeros of the given length for each ZERO; [REPLACE(0, 4), ZERO(4)] over
\* a body that begins ABCD gives ABCD and four zero bytes.  The body is what
\* follows the manifest: the last bytes of the file.
C17_ReplaceZeroConcatenation ==
  \A k \in 1..Len(events) :
    LET e == events[k]
        file == Resource(sess[e.sid])
        body == SubSeq(file, Len(file) - Len(CrauBody) + 1, Len(file))
    IN  (e.type = "progress" /\ sess[e.sid].info.type = "file") =>
          LET ops == OperationsOf(e.sid, e.partition)
          IN  /\ (\A j \in 1..Len(ops) : ops[j].type \in {REPLACE, ZERO}) =>
                   e.data = Concatenation(body, ops)
              /\ (ops = <<[type |-> REPLACE, dataOffset |-> 0, dataLength |-> 4],
                          [type |-> ZERO, dataOffset |-> 0, dataLength |-> 4]>>
                    /\ SubSeq(body, 1, 4) = <<65, 66, 67, 68>>) =>
                   e.data = <<65, 66, 67, 68, 0, 0, 0, 0>>

\* The partition boot, [REPLACE(0, 4), ZERO(4)], of a local file whose body
\* begins ABCD has been extracted and posted.
C17_Witness ==
  \E k \in 1..Len(events) :
    /\ events[k].type = "progress"
    /\ sess[events[k].sid].info.type = "file"
    /\ sess[events[k].sid].info.source = "crau"
    /\ events[k].partition = N_boot
    /\ Len(OperationsOf(events[k].sid, N_boot)) = 2
    /\ events[k].data = <<65, 66, 67, 68, 0, 0, 0, 0>>


\* Partition name of the manifest session s has parsed holds an operation
\* that is neither REPLACE nor ZERO.
Unsupported(s, name) ==
  /\ \E k \in 1..Len(sess[s].parsed.partitions) :
       sess[s].parsed.partitions[k].partitionName = name
  /\ \E j \in 1..Len(OperationsOf(s, name)) :
       OperationsOf(s, name)[j].type \notin {REPLACE, ZERO}

UnsupportedError == <<"Failed to extract partition", "Unsupported operation type">>

\* The step of session s that extracts one requested partition of a file.
C18_Step(s) ==
  LET st == sess[s]
  IN  (/\ st.pc = "B_loop"
       /\ st.idx <= Len(st.info.partitions)
       /\ sess'[s] # st
       /\ Unsupported(s, st.info.partitions[st.idx])) =>
        /\ sess'[s].pc = "done"
        /\ sess'[s].err = UnsupportedError
        /\ events' = Append(events, Event(s, "error", <<>>, <<>>, UnsupportedError))

\* C18: extractPartition over a partition that holds a COPY, a BSDIFF or an
\* operation of unknown type anywhere in its list fails with the
\* unsupported-operation error, also when REPLACE or ZERO operations come
\* before it; no progress message is posted for that partition and the
\* session ends with that error.
C18_UnsupportedOperation ==
  /\ [][\A s \in Sessions : C18_Step(s)]_vars
  /\ [](\A k \in 1..Len(events) :
          (events[k].type = "progress" /\ sess[events[k].sid].info.type = "file") =>
            ~Unsupported(events[k].sid, events[k].partition))

\* A file whose system partition is [REPLACE, COPY]: boot was extracted and
\* posted, then the session ended with the unsupported-operation error.
C18_Witness ==
  \E s \in Sessions :
    /\ sess[s].info.type = "file"
    /\ sess[s].info.source = "delta"
    /\ EventsOf(s) = <<Event(s, "progress", N_boot, <<65, 66, 67, 68, 0, 0, 0, 0>>, <<>>),
                       Event(s, "error", <<>>, <<>>, UnsupportedError)>>
    /\ OperationsOf(s, N_system)[1].type = REPLACE
    /\ OperationsOf(s, N_system)[2].type = COPY

----------------------------------------------------------------------------
(* Properties of the candidate test of the central directory scan.         *)

\* The file name ends, compared case-insensitively, with one of the
\* candidate names.
EndsWithCandidate(fileName) ==
  \E n \in 1..Len(possibleNames) :
    LET name == ToLowerCase(possibleNames[n])
        str == ToLowerCase(fileName)
    IN  /\ Len(name) <= Len(str)
        /\ SubSeq(str, Len(str) - Len(name) + 1, Len(str)) = name

\* A step of session s that decides on the stored record at the scan offset:
\* it leaves the record for the next one, or requests its local header.
C21_Decides(s) ==
  /\ sess[s].pc \in {"Z_scan", "Z_extra"}
  /\ CompressionMethod(sess[s]) = 0
  /\ \/ sess'[s].pc = "Z_local"
     \/ sess'[s].pc = "Z_scan" /\ sess'[s].offset > sess[s].offset

\* C21: a stored central-directory entry is examined as a payload candidate
\* (its local header is requested) exactly when its file name ends, compared
\* case-insensitively, with one of the candidate names; a name that merely
\* contains a candidate name, such as payload.bin.sig, is passed over.
C21_SuffixCandidate ==
  [][\A s \in Sessions :
       C21_Decides(s) =>
         (sess'[s].pc = "Z_local" <=> EndsWithCandidate(FileName(sess[s])))]_vars

----------------------------------------------------------------------------
(* Properties of the manifest of a URL session.                            *)

\* Session s of type url holds manifest entries returned, or being
\* collected, by readPayloadHeader.
HoldsManifest(s) ==
  /\ sess[s].info.type = "url"
  /\ sess[s].pc \in {"H_entry", "P_loop", "D_single", "D_chunk", "D_backoff"}
  /\ sess[s].manifest # <<>>

\* C22: every manifest entry of readPayloadHeader stores the offset decoded
\* from the payload plus the body offset of the payload when the container
\* is a ZIP, and the decoded offset itself when the container is raw; the
\* body offset added is the one at which processUrl validated the payload
\* magic (payloadOffset).
C22_TranslatedOffsets ==
  \A s \in Sessions :
    HoldsManifest(s) =>
      LET st == sess[s]
          file == Resource(st)
          declared == DeclaredEntries(file, st.payloadOffset + 20, Len(st.manifest))
      IN  \A k \in 1..Len(st.manifest) :
            st.manifest[k].offset =
              IF B4(file, 0) = ZIP_LOCAL_SIG
              THEN declared[k].offset + st.payloadOffset
              ELSE declared[k].offset

\* C23: every byte range read for a partition lies inside its source.  The
\* range downloadRange works on for a manifest entry has start <= end and
\* end below the length of the resource, and every REPLACE operation of an
\* extracted partition has dataOffset + dataLength within the body of the
\* payload buffer; an entry or operation outside these bounds is rejected,
\* not read.
C23_RangesInsideSource ==
  /\ \A s \in Sessions :
       (sess[s].info.type = "url" /\ sess[s].pc \in {"D_single", "D_chunk", "D_backoff"}) =>
         /\ sess[s].start <= sess[s].end
         /\ sess[s].end < Len(Resource(sess[s]))
  /\ \A k \in 1..Len(events) :
       (events[k].type = "progress" /\ sess[events[k].sid].info.type = "file") =>
         LET ops == OperationsOf(events[k].sid, events[k].partition)
             body == Len(Resource(sess[events[k].sid])) - sess[events[k].sid].parsed.offset
         IN  \A j \in 1..Len(ops) :
               ops[j].type = REPLACE => ops[j].dataOffset + ops[j].dataLength <= body

\* Session s of type url knows its container location: format detection,
\* and for a ZIP the traversal of the central directory, have returned
\* payloadOffset to processUrl.
Located(s) ==
  /\ sess[s].info.type = "url"
  /\ \/ sess[s].pc \in {"U_header", "H_magic", "H_ziphdr", "H_raw", "H_entry", "P_loop",
                        "D_single", "D_chunk", "D_backoff"}
     \/ sess[s].stack # <<>> /\ Head(sess[s].stack) = "H_zip"

\* Session s of type url holds the decoded manifest: readPayloadHeader has
\* returned and the partition loop runs.
Decoded(s) ==
  /\ sess[s].info.type = "url"
  /\ sess[s].pc \in {"P_loop", "D_single", "D_chunk", "D_backoff"}

\* C24: within one URL session the container location (format detection and
\* the traversal of the ZIP central directory) is computed at most once and
\* the manifest is decoded at most once, whatever the number of requested
\* partitions: a session that knows its location starts no further format
\* detection and no further traversal, and a session that holds its
\* manifest fetches and decodes no further header.
C24_LocatedAndDecodedOnce ==
  [][\A s \in Sessions :
       /\ (Located(s) /\ sess'[s].pc # sess[s].pc) =>
            sess'[s].pc \notin {"U_detect", "H_magic", "Z_head"}
       /\ (Decoded(s) /\ sess'[s].pc # sess[s].pc) =>
            sess'[s].pc \notin {"U_detect", "U_header", "H_magic", "Z_head", "H_ziphdr",
                                "H_raw", "H_entry"}]_vars

----------------------------------------------------------------------------
(* Properties of the partition loop of a URL session.                      *)

\* The requested names before position idx that are in the manifest.
FoundBefore(s) ==
  SelectSeq(SubSeq(sess[s].info.partitions, 1, sess[s].idx - 1),
            LAMBDA n : FindName(ManifestNames(sess[s]), n) # 0)

\* Session s of type url downloads the partition at position idx of its
\* request.
Downloading(s) ==
  /\ sess[s].info.type = "url"
  /\ sess[s].pc \in {"D_single", "D_chunk", "D_backoff"}

\* C25: within one session partitions are processed strictly one after
\* another.  While the range of a requested partition is downloaded, the
\* progress message of every found partition requested before it has been
\* posted; every range request in flight lies in the range of that one
\* partition; and at most one range request of the session is in flight at
\* any time.
C25_OneAfterAnother ==
  \A s \in Sessions :
    /\ Cardinality({r \in inflight : r.sid = s /\ r.op = "range"}) <= 1
    /\ Downloading(s) =>
         LET st == sess[s]
             partition == st.manifest[FindName(ManifestNames(st), st.info.partitions[st.idx])]
         IN  /\ ProgressNames(s) = FoundBefore(s)
             /\ st.start = partition.offset
             /\ st.end = partition.offset + partition.size - 1
             /\ \A r \in inflight :
                  (r.sid = s /\ r.op = "range") => st.start <= r.a /\ r.b <= st.end

\* The second requested partition is being downloaded in chunks, a range
\* request of it is in flight, and the progress message of the first has
\* been posted.
C25_Witness ==
  \E s \in Sessions :
    /\ Downloading(s)
    /\ sess[s].idx = 2
    /\ sess[s].pc = "D_chunk"
    /\ ProgressNames(s) = <<N_system>>
    /\ sess[s].info.partitions = <<N_system, N_boot>>
    /\ \E r \in inflight : r.sid = s /\ r.op = "range"

----------------------------------------------------------------------------
(* Properties of PayloadHandler.                                           *)

Settled(c) == main.calls[c].state \in {"resolved", "rejected"}

\* C26: the messages of the worker reach only the processPayload call whose
\* session posted them.  A call's promise is settled only by the terminal
\* message of its own session (resolved by success, rejected by error), so
\* an overlapping call stays pending until its own terminal message; and
\* each progress message invokes onProgress exactly once.
C26_OwnSessionOnly ==
  /\ \A c \in Sessions :
       Settled(c) =>
         \E k \in main.delivered :
           /\ events[k].sid = c
           /\ events[k].type = IF main.calls[c].state = "resolved" THEN "success" ELSE "error"
  /\ main.onProgress = Cardinality({k \in main.delivered : events[k].type = "progress"})

\* C27: a PayloadHandler constructs at most one Worker over its lifetime,
\* also when processPayload is called while the import started by the
\* constructor is pending; and the worker a call's listener was added to is
\* the worker its 'process' message was posted to and the worker the
\* listener is removed from at the terminal message.
C27_OneWorker ==
  /\ main.constructed <= 1
  /\ \A c \in Sessions :
       /\ main.calls[c].posted = main.calls[c].attached
       /\ main.calls[c].removedFrom \in {0, main.calls[c].attached}

\* C28: the promise of every processPayload call eventually settles:
\* resolved after the success message of its session, rejected after its
\* error message, and rejected when the worker module fails to load.
C28_PromiseSettles ==
  \A c \in Sessions : (main.calls[c].state # "none") ~> Settled(c)

----------------------------------------------------------------------------
(* Properties of the chunked path of downloadRange.                        *)

\* The call of session st takes the chunked path: a valid range of more
\* than MaxChunkSize bytes.  st.sent counts the requests the call has sent.
Chunked(st) ==
  /\ st.pc \in {"D_chunk", "D_backoff", "returned", "thrown"}
  /\ st.start >= 0
  /\ st.end - st.start + 1 > MaxChunkSize

\* The number of chunks of a range of len bytes.
ChunksOf(len) == (len + MaxChunkSize - 1) \div MaxChunkSize

C29_Inv(s) ==
  LET st == sess[s]
  IN  Chunked(st) =>
        /\ st.retryCount \in 0..maxRetries
        /\ st.pc \in {"D_chunk", "D_backoff"} => st.retryCount < maxRetries
        /\ st.pc = "thrown" <=> st.retryCount = maxRetries
        /\ st.start <= st.currentStart /\ st.currentStart <= st.end + 1
        /\ st.pc = "returned" => st.currentStart = st.end + 1
        /\ st.sent <= maxRetries * ChunksOf(st.end - st.start + 1)

C29_Step(s) ==
  LET st == sess[s]
      next == sess'[s]
  IN  (Chunked(st) /\ next # st) =>
        /\ next.currentStart >= st.currentStart
        /\ st.pc = "D_backoff" =>
             next.retryCount = st.retryCount /\ next.currentStart = st.currentStart
        /\ st.pc = "D_chunk" =>
             IF Len(next.okReqs) > Len(st.okReqs)
             THEN next.retryCount = 0 /\ next.currentStart > st.currentStart
             ELSE /\ next.retryCount = st.retryCount + 1
                  /\ next.currentStart = st.currentStart
                  /\ next.pc = "thrown" <=> next.retryCount = maxRetries

\* C29: in the chunked path of downloadRange the failure counter belongs to
\* the current chunk.  Every successful chunk resets it to 0 and moves
\* currentStart forward; a failed attempt adds 1 and leaves currentStart; no
\* chunk is attempted more than maxRetries times and the call fails exactly
\* when one chunk has failed maxRetries attempts in a row; currentStart
\* never decreases and never passes end + 1; and the call ends, after at
\* most maxRetries requests per chunk of the range.
C29_ChunkRetry ==
  /\ [](\A s \in Sessions : C29_Inv(s))
  /\ [][\A s \in Sessions : C29_Step(s)]_vars
  /\ <>(sess[1].pc \in {"returned", "thrown"})

\* A call of two chunks that failed twice on the first chunk, got it at the
\* third attempt, and then failed three times in a row on the second: six
\* requests, the most a range of two chunks can take.
C29_Witness ==
  /\ sess[1].pc = "thrown"
  /\ Chunked(sess[1])
  /\ ChunksOf(sess[1].end - sess[1].start + 1) = 2
  /\ Len(sess[1].okReqs) = 1
  /\ sess[1].retryCount = maxRetries
  /\ sess[1].sent = 6

----------------------------------------------------------------------------
(* Properties of manifests that hold a name more than once.                *)

\* The position of the first of the names that equals n.
FirstNamed(names, n) ==
  LET at == {k \in 1..Len(names) : names[k] = n}
  IN  CHOOSE k \in at : \A j \in at : k <= j

\* The names of the entries the raw payload file declares.
DeclaredNames(file) ==
  LET declared == DeclaredEntries(file, 20, U32(file, 16))
  IN  [k \in 1..Len(declared) |-> declared[k].name]

\* C30: when a manifest holds several entries of one partition name, a
\* request for the name is served from the first of them in manifest order:
\* a URL session downloads the range of the first entry of the name, the
\* blob of a local file is built from the operations of the first partition
\* of the name; and each request of the name yields one progress message,
\* whatever the number of entries of the name.
C30_FirstWins ==
  \A s \in Sessions :
    /\ Downloading(s) =>
         LET file == Resource(sess[s])
             first == DeclaredEntries(file, 20, U32(file, 16))
                        [FirstNamed(DeclaredNames(file), sess[s].info.partitions[sess[s].idx])]
         IN  /\ sess[s].start = first.offset
             /\ sess[s].end = first.offset + first.size - 1
    /\ sess[s].info.type = "file" =>
         \A k \in 1..Len(EventsOf(s)) :
           LET e == EventsOf(s)[k]
               file == Resource(sess[s])
               body == SubSeq(file, Len(file) - Len(CrauBody) + 1, Len(file))
           IN  e.type = "progress" =>
                 e.data = Concatenation(body,
                            sess[s].parsed.partitions[FirstNamed(PresentNames(s), e.partition)]
                              .operations)
    /\ IsPrefix(ProgressNames(s), RequestedPresent(s))
    /\ (sess[s].pc = "done" /\ sess[s].err = <<>>) => ProgressNames(s) = RequestedPresent(s)

\* A URL session on the payload with two entries named boot asked for boot
\* twice: two progress messages, each with the byte of the first entry.
C30_Witness ==
  /\ sess[1].info = [type |-> "url", source |-> "dup", partitions |-> <<N_boot, N_boot>>]
  /\ Len(DeclaredNames(Resource(sess[1]))) = 2
  /\ DeclaredNames(Resource(sess[1]))[2] = N_boot
  /\ Len(EventsOf(1)) = 3
  /\ EventsOf(1)[1].data = <<7>>
  /\ EventsOf(1)[2].data = <<7>>
  /\ EventsOf(1)[3].type = "success"

====
